---- MODULE Spec2Model ----
(***************************************************************************)
(* Model of the metadata resolution pipeline (app/services/feature_store)  *)
(* and of the session-token adapter (app/services/spotify_client).         *)
(*                                                                         *)
(* Strings are sequences of one-character strings, so that strip() and     *)
(* upper() are computed.  JSON values are records [k |-> kind, v |-> ...]. *)
(* Optional values are pairs <<"some", x>> and <<"none", <<>>>>.            *)
(***************************************************************************)
EXTENDS Integers, Sequences, FiniteSets, TLC

(***************************************************************************)
(* Bounds of the model.                                                    *)
(***************************************************************************)
\* Calls the threads may start in one behaviour.
MaxCalls == 3

\* Calls made on behalf of a session in one behaviour.
MaxSessionCalls == 2

\* Clock advances in one behaviour.
MaxTicks == 1

\* Passages of the request gate started in one behaviour.
MaxGateCalls == 3

\* The monotonic clock stops advancing here (tenths of a second).
MaxMonotonic == 33

\* Longest list of recordings handed to _pick_best_recording on its own.
MaxLen == 3

\* Calls of get_track_features in a behaviour that keeps the network's answers.
MaxRecordingCalls == 3

\* Calls of _musicbrainz_request_json in a behaviour that follows the request.
MaxRequests == 2

\* Longest 'tags' list of a recording handed to _extract_track_features on
\* its own.
MaxTags == 2

Threads == {1, 2}

(***************************************************************************)
(* Program constants (feature_store.py lines 18-22).                       *)
(***************************************************************************)
MAPPING_TTL_SECONDS == 30 * 24 * 60 * 60
TRACK_FEATURES_TTL_SECONDS == 7 * 24 * 60 * 60
NEGATIVE_TTL_SECONDS == 6 * 60 * 60
ERROR_BACKOFF_SECONDS == 15 * 60
\* 1.1 seconds, in tenths of a second (the unit of monotonic).
MB_MIN_INTERVAL_SECONDS == 11

(***************************************************************************)
(* Strings.                                                                *)
(***************************************************************************)
IsSpace(c) == c = " "

\* str.upper() on one character.
UpperChar(c) ==
    CASE c = "a" -> "A"
      [] c = "b" -> "B"
      [] OTHER -> c

\* str.casefold() on one character (ASCII).
FoldChar(c) ==
    CASE c = "A" -> "a"
      [] c = "B" -> "b"
      [] OTHER -> c

Upper(s) == [i \in 1..Len(s) |-> UpperChar(s[i])]

Casefold(s) == [i \in 1..Len(s) |-> FoldChar(s[i])]

RECURSIVE LStrip(_)
LStrip(s) ==
    IF s = <<>> THEN s
    ELSE IF IsSpace(Head(s)) THEN LStrip(Tail(s)) ELSE s

RECURSIVE RStrip(_)
RStrip(s) ==
    IF s = <<>> THEN s
    ELSE IF IsSpace(s[Len(s)]) THEN RStrip(SubSeq(s, 1, Len(s) - 1)) ELSE s

\* str.strip()
Strip(s) == RStrip(LStrip(s))

\* Code point of a character, for Python's string ordering.
Ord(c) ==
    CASE c = " " -> 32
      [] c = "0" -> 48
      [] c = "1" -> 49
      [] c = "8" -> 56
      [] c = "A" -> 65
      [] c = "B" -> 66
      [] c = "N" -> 78
      [] c = "a" -> 97
      [] c = "b" -> 98
      [] c = "e" -> 101
      [] c = "m" -> 109
      [] c = "n" -> 110
      [] c = "o" -> 111
      [] c = "x" -> 120

\* s < t in Python's string ordering (lexicographic by code point).
RECURSIVE StrLess(_, _)
StrLess(s, t) ==
    IF t = <<>> THEN FALSE
    ELSE IF s = <<>> THEN TRUE
    ELSE IF Ord(Head(s)) # Ord(Head(t)) THEN Ord(Head(s)) < Ord(Head(t))
    ELSE StrLess(Tail(s), Tail(t))

(***************************************************************************)
(* Optional values and JSON values.                                        *)
(***************************************************************************)
None == <<"none", <<>>>>
Some(x) == <<"some", x>>
IsSome(o) == o[1] = "some"

JStr(s) == [k |-> "str", v |-> s]
JInt(n) == [k |-> "int", v |-> n]
JNull == [k |-> "null", v |-> 0]
JTrue == [k |-> "bool", v |-> 1]
\* The float that json.loads gives for a number beyond the range of a double
\* (1e999) and for the literal Infinity.
JInfinity == [k |-> "inf", v |-> 0]
JList(items) == [k |-> "list", v |-> items]
JDict(f) == [k |-> "dict", v |-> f]
\* What dict.get(field) gives for an absent field.
JMissing == JNull

IsStr(j) == j.k = "str"
IsDict(j) == j.k = "dict"
IsList(j) == j.k = "list"

\* dict.get(field)
Get(d, field) == IF field \in DOMAIN d.v THEN d.v[field] ELSE JMissing

\* dict.get(field, default)
GetOr(d, field, default) == IF field \in DOMAIN d.v THEN d.v[field] ELSE default

\* Python truthiness of a JSON value.
Truthy(j) ==
    CASE j.k = "null" -> FALSE
      [] j.k = "bool" -> j.v = 1
      [] j.k = "int" -> j.v # 0
      [] j.k = "str" -> j.v # <<>>
      [] j.k = "list" -> j.v # <<>>
      [] j.k = "dict" -> DOMAIN j.v # {}
      [] OTHER -> TRUE

EmptyDict == JDict(<<>>)

(***************************************************************************)
(* The cache store: three tables, each a set of rows.                      *)
(***************************************************************************)
NoRow == [present |-> FALSE]

Row(key, value, updated_at, expires_at, backoff_until) ==
    [present |-> TRUE, key |-> key, value |-> value, updated_at |-> updated_at,
     expires_at |-> expires_at, backoff_until |-> backoff_until]

\* SELECT ... WHERE key = ? ... fetchone()
FetchOne(table, key) ==
    IF \E r \in table : r.key = key
    THEN CHOOSE r \in table : r.key = key
    ELSE NoRow

\* An INSERT that leaves an existing row as it is (ON CONFLICT DO NOTHING).
InsertOrIgnore(table, key, value, now, ttl_seconds) ==
    IF \E r \in table : r.key = key THEN table
    ELSE table \cup {[present |-> TRUE, key |-> key, value |-> value, updated_at |-> now,
                      expires_at |-> now + ttl_seconds, backoff_until |-> 0]}

\* An upsert that leaves backoff_until of an existing row as it is.
UpsertKeepingBackoff(table, key, value, now, ttl_seconds) ==
    {r \in table : r.key # key}
        \cup {[present |-> TRUE, key |-> key, value |-> value, updated_at |-> now,
               expires_at |-> now + ttl_seconds,
               backoff_until |-> IF \E r \in table : r.key = key
                                 THEN (CHOOSE r \in table : r.key = key).backoff_until
                                 ELSE 0]}

\* INSERT ... VALUES (?, ?, ?, ?, 0) ON CONFLICT(key) DO UPDATE SET ..., backoff_until = 0
UpsertRow(table, key, value, now, ttl_seconds) ==
    {r \in table : r.key # key}
        \cup {Row(key, value, now, now + ttl_seconds, 0)}

\* An UPDATE without the WHERE clause.
BackoffEveryRow(table, key, backoff_until) ==
    {[r EXCEPT !.backoff_until = backoff_until] : r \in table}

\* UPDATE ... SET backoff_until = ? WHERE key = ?
UpdateBackoff(table, key, backoff_until) ==
    {IF r.key = key THEN [r EXCEPT !.backoff_until = backoff_until] ELSE r : r \in table}

\* A usability test that looks at the expiry alone.
UsableUntilExpiry(row, now) == row.present /\ now <= row.expires_at

\* A usability test with strict comparisons.
UsableBeforeExpiry(row, now) ==
    row.present /\ (now < row.expires_at \/ now < row.backoff_until)

_is_cache_usable(row, now) ==
    IF ~row.present THEN FALSE
    ELSE now <= row.expires_at \/ now <= row.backoff_until

\* A normalization that trims and leaves the letter case.
StripOnly(isrc) == Strip(isrc)

\* A normalization that changes the letter case and leaves the whitespace.
UpperOnly(isrc) == Upper(isrc)

_normalize_isrc(isrc) == Upper(Strip(isrc))

_normalize_mbid(mbid) == Strip(mbid)

_get_spotify_to_isrc_row(table, spotify_track_id) == FetchOne(table, spotify_track_id)

_upsert_spotify_to_isrc(table, spotify_track_id, isrc, now, ttl_seconds) ==
    UpsertRow(table, spotify_track_id, isrc, now, ttl_seconds)

\* An UPDATE that backs off for one second.
BackoffOneSecond(table, spotify_track_id, now) ==
    UpdateBackoff(table, spotify_track_id, now + 1)

_set_spotify_to_isrc_backoff(table, spotify_track_id, now) ==
    UpdateBackoff(table, spotify_track_id, now + ERROR_BACKOFF_SECONDS)

_get_isrc_to_mbid_row(table, isrc) == FetchOne(table, isrc)

_upsert_isrc_to_mbid(table, isrc, mbid, now, ttl_seconds) ==
    UpsertRow(table, isrc, mbid, now, ttl_seconds)

\* A failure branch that removes the row.
DeleteOnFailure(table, isrc, now) == {r \in table : r.key # isrc}

_set_isrc_to_mbid_backoff(table, isrc, now) ==
    UpdateBackoff(table, isrc, now + ERROR_BACKOFF_SECONDS)

(***************************************************************************)
(* Python's int() and str() on the JSON values a payload can hold.         *)
(***************************************************************************)
IsDigit(c) == c \in {"0", "1", "8"}

DigitValue(c) ==
    CASE c = "0" -> 0
      [] c = "1" -> 1
      [] c = "8" -> 8

RECURSIVE ParseDigits(_, _)
ParseDigits(s, acc) ==
    IF s = <<>> THEN acc
    ELSE ParseDigits(Tail(s), 10 * acc + DigitValue(Head(s)))

\* int(raw) succeeds: ints, bools, floats, and strings of digits (blanks around them allowed).
IntConvertible(j) ==
    CASE j.k \in {"int", "bool", "float"} -> TRUE
      [] j.k = "str" -> /\ Strip(j.v) # <<>>
                        /\ \A i \in 1..Len(Strip(j.v)) : IsDigit(Strip(j.v)[i])
      [] OTHER -> FALSE

\* int(raw); a float is held as its integer part.
IntOf(j) == IF j.k = "str" THEN ParseDigits(Strip(j.v), 0) ELSE j.v

\* try: return int(raw) / except (TypeError, ValueError): return 0
IntOrZero(j) == IF IntConvertible(j) THEN IntOf(j) ELSE 0

\* int(raw) raises OverflowError, which is neither a TypeError nor a
\* ValueError: the except clause of lines 391-394 and 398-401 lets it pass.
IntOverflows(j) == j.k = "inf"

\* str(value), for the kinds of value an "id" field holds in the payloads below.
PyStr(j) ==
    CASE j.k = "str" -> j.v
      [] j.k = "null" -> <<"N", "o", "n", "e">>
      [] j.k = "int" /\ j.v \in 0..9 -> <<CHOOSE c \in {"0", "1", "8"} : DigitValue(c) = j.v>>

_recording_score(recording) == IntOrZero(GetOr(recording, "score", JInt(0)))

_count_value(item) == IntOrZero(GetOr(item, "count", JInt(0)))

\* (score, str(id)) of a candidate, and Python's tuple ordering on such keys.
RecordingKey(recording) ==
    <<_recording_score(recording), PyStr(GetOr(recording, "id", JStr(<<>>)))>>

\* A comparison of the scores alone.
ScoreGreater(a, b) == a[1] > b[1]

KeyGreater(a, b) == a[1] > b[1] \/ (a[1] = b[1] /\ StrLess(b[2], a[2]))

RECURSIVE BestOf(_, _)
BestOf(best, rest) ==
    IF rest = <<>> THEN best
    ELSE IF KeyGreater(RecordingKey(Head(rest)), RecordingKey(best))
         THEN BestOf(Head(rest), Tail(rest))
         ELSE BestOf(best, Tail(rest))

\* A selection that does not look for the expected identity.
PickIgnoringExpected(recordings, expected_mbid) ==
    LET candidates == SelectSeq(recordings, IsDict)
    IN  IF candidates = <<>> THEN JNull
        ELSE BestOf(Head(candidates), Tail(candidates))

\* expected_mbid is an optional string; the result is a recording or JNull (None).
_pick_best_recording(recordings, expected_mbid) ==
    LET candidates == SelectSeq(recordings, IsDict)
        matches == SelectSeq(candidates, LAMBDA r : Get(r, "id") = JStr(expected_mbid[2]))
    IN  IF candidates = <<>> THEN JNull
        ELSE IF IsSome(expected_mbid) /\ expected_mbid[2] # <<>> /\ matches # <<>>
             THEN Head(matches)
             ELSE BestOf(Head(candidates), Tail(candidates))

(***************************************************************************)
(* The metadata-database client.  A network response is what urlopen and   *)
(* response.read() give: an HTTPError, a URLError, or a body.              *)
(***************************************************************************)
HttpError(code) == [kind |-> "http_error", code |-> code]
UrlError == [kind |-> "url_error"]
EmptyBody == [kind |-> "empty_body"]
InvalidJson == [kind |-> "invalid_json"]
JsonBody(j) == [kind |-> "json", json |-> j]
\* The timeout of urlopen(..., timeout=15) expires while the response is
\* awaited or read: getresponse() and read() raise TimeoutError, which is no
\* URLError (a timeout while connecting or sending is wrapped: UrlError).
ReadTimeout == [kind |-> "timeout"]

Ok(value) == [kind |-> "ok", value |-> value]
\* _MusicBrainzLookupError(status_code, ...); status 0 stands for status_code=None.
LookupError(status_code) == [kind |-> "lookup_error", status_code |-> status_code]
\* RuntimeError("MUSICBRAINZ_USER_AGENT is required")
ConfigError == [kind |-> "runtime_error"]
\* The TimeoutError of a ReadTimeout, which no except clause of the clients
\* names.
TimeoutError == [kind |-> "timeout_error"]
\* The OverflowError of int(float("inf")).
OverflowError == [kind |-> "overflow_error"]

_musicbrainz_user_agent(env_value) ==
    IF Strip(env_value) = <<>> THEN ConfigError ELSE Ok(Strip(env_value))

\* The request reaches urlopen only when the header value could be built.
MbReachesNetwork(env_value) == _musicbrainz_user_agent(env_value).kind = "ok"

_musicbrainz_request_json(env_value, net) ==
    IF ~MbReachesNetwork(env_value) THEN ConfigError
    ELSE CASE net.kind = "http_error" -> LookupError(net.code)
           [] net.kind = "url_error" -> LookupError(0)
           [] net.kind = "empty_body" -> Ok(EmptyDict)
           [] net.kind = "invalid_json" -> LookupError(0)
           [] net.kind = "json" -> IF IsDict(net.json) THEN Ok(net.json) ELSE LookupError(0)
           [] net.kind = "timeout" -> TimeoutError

\* The try-block of mbid_from_isrc applied to a payload: the fetched mbid or None.
MbidFromPayload(payload) ==
    LET recordings == Get(payload, "recordings")
        best_recording == IF IsList(recordings)
                          THEN _pick_best_recording(recordings.v, None)
                          ELSE JNull
        raw_mbid == IF Truthy(best_recording) THEN Get(best_recording, "id") ELSE JNull
    IN  IF IsStr(raw_mbid) /\ Strip(raw_mbid.v) # <<>>
        THEN Some(_normalize_mbid(raw_mbid.v))
        ELSE None

(***************************************************************************)
(* The provider client (spotify_client.py).                                *)
(***************************************************************************)
\* SpotifyClientError(status_code, message, auth_error)
ClientError(status_code, auth_error) ==
    [kind |-> "error", status_code |-> status_code, auth_error |-> auth_error]

NotAuthorized == ClientError(401, TRUE)

_decode_json(body) ==
    CASE body.kind = "json" -> Ok(body.json)
      [] body.kind \in {"invalid_json", "empty_body"} -> ClientError(502, FALSE)

_spotify_request_json(net) ==
    CASE net.kind = "http_error" ->
            IF net.code = 401 THEN ClientError(net.code, TRUE) ELSE ClientError(net.code, FALSE)
      [] net.kind = "url_error" -> ClientError(502, FALSE)
      [] net.kind = "empty_body" -> Ok(EmptyDict)
      [] net.kind = "timeout" -> TimeoutError
      [] OTHER -> _decode_json(net)

get_current_user(net) ==
    LET profile == _spotify_request_json(net)
    IN  IF profile.kind = "ok" /\ ~IsDict(profile.value) THEN ClientError(502, FALSE)
        ELSE profile

get_track(track_id, net) ==
    LET safe_track_id == Strip(track_id)
        payload == _spotify_request_json(net)
    IN  IF safe_track_id = <<>> THEN ClientError(400, FALSE)
        ELSE IF payload.kind = "ok" /\ ~IsDict(payload.value) THEN ClientError(502, FALSE)
        ELSE payload

\* isinstance(x, str)
IsAnyStr(j) == IsStr(j)

\* isinstance(x, str) and x
IsNonEmptyStr(j) == IsStr(j) /\ j.v # <<>>

_refresh_access_token(net) ==
    LET token_data == _decode_json(net)
    IN  CASE net.kind = "http_error" -> ClientError(401, TRUE)
          [] net.kind = "url_error" -> ClientError(502, FALSE)
          [] net.kind = "timeout" -> TimeoutError
          [] OTHER ->
                IF token_data.kind # "ok" THEN token_data
                ELSE IF ~IsDict(token_data.value) THEN ClientError(502, FALSE)
                ELSE IF ~IsNonEmptyStr(Get(token_data.value, "access_token"))
                     THEN NotAuthorized
                     ELSE token_data

\* A merge that keeps the prior token set.
KeepPriorTokens(token_data, refreshed_tokens, refresh_token) == token_data

\* A merge that keeps the refresh response alone.
TakeRefreshedTokens(token_data, refreshed_tokens, refresh_token) == refreshed_tokens

\* {**token_data, **refreshed_tokens}, then the prior refresh token when the
\* merged one is not a non-empty string (lines 349-351).
MergeTokens(token_data, refreshed_tokens, refresh_token) ==
    LET merged == [f \in DOMAIN token_data.v \cup DOMAIN refreshed_tokens.v |->
                      IF f \in DOMAIN refreshed_tokens.v
                      THEN refreshed_tokens.v[f] ELSE token_data.v[f]]
    IN  IF ~IsNonEmptyStr(Get(JDict(merged), "refresh_token"))
        THEN JDict([f \in DOMAIN merged \cup {"refresh_token"} |->
                       IF f = "refresh_token" THEN refresh_token ELSE merged[f]])
        ELSE JDict(merged)

(***************************************************************************)
(* The token store (app.services.spotify_oauth): get, store, clear.        *)
(***************************************************************************)
get_tokens(store, session_id) == store[session_id]

store_tokens(store, session_id, token_data) == [store EXCEPT ![session_id] = token_data]

clear_tokens(store, session_id) == [store EXCEPT ![session_id] = JNull]

_extract_isrc_from_track(track_payload) ==
    LET external_ids == Get(track_payload, "external_ids")
        raw_isrc == IF IsDict(external_ids) THEN Get(external_ids, "isrc") ELSE JNull
    IN  IF ~IsDict(external_ids) THEN None
        ELSE IF ~IsStr(raw_isrc) THEN None
        ELSE IF _normalize_isrc(raw_isrc.v) = <<>> THEN None
        ELSE Some(_normalize_isrc(raw_isrc.v))

(***************************************************************************)
(* Feature extraction and the recording lookup (feature_store.py).         *)
(***************************************************************************)
TagSource == <<"t", "a", "g">>
GenreSource == <<"g", "e", "n", "r", "e">>

HasName(item) ==
    IsDict(item) /\ IsStr(Get(item, "name")) /\ Strip(Get(item, "name").v) # <<>>

\* The loop over raw_tags (lines 468-480) or raw_genres (lines 483-495).
RECURSIVE TagItems(_, _)
TagItems(items, source) ==
    IF items = <<>> THEN <<>>
    ELSE IF HasName(Head(items))
         THEN << JDict([name |-> JStr(Strip(Get(Head(items), "name").v)),
                        count |-> JInt(_count_value(Head(items))),
                        source |-> JStr(source)]) >> \o TagItems(Tail(items), source)
         ELSE TagItems(Tail(items), source)

\* The loop over artist-credit (lines 500-511).
RECURSIVE ArtistNames(_)
ArtistNames(items) ==
    IF items = <<>> THEN <<>>
    ELSE LET item == Head(items)
             own == IF HasName(item) THEN <<Strip(Get(item, "name").v)>> ELSE <<>>
             nested == IF IsDict(item) /\ HasName(Get(item, "artist"))
                       THEN <<Strip(Get(Get(item, "artist"), "name").v)>> ELSE <<>>
         IN  own \o nested \o ArtistNames(Tail(items))

\* The loop over artist_names (lines 513-520).
RECURSIVE UniqueArtists(_, _)
UniqueArtists(names, seen_artists) ==
    IF names = <<>> THEN <<>>
    ELSE IF Casefold(Head(names)) \in seen_artists
         THEN UniqueArtists(Tail(names), seen_artists)
         ELSE <<Head(names)>> \o
              UniqueArtists(Tail(names), seen_artists \cup {Casefold(Head(names))})

StrOrNull(j) == IF IsStr(j) THEN j ELSE JNull

\* The loop over releases (lines 525-537).
RECURSIVE ReleasesSummary(_)
ReleasesSummary(items) ==
    IF items = <<>> THEN <<>>
    ELSE IF IsDict(Head(items))
         THEN << JDict([id |-> StrOrNull(Get(Head(items), "id")),
                        title |-> StrOrNull(Get(Head(items), "title")),
                        date |-> StrOrNull(Get(Head(items), "date"))]) >>
              \o ReleasesSummary(Tail(items))
         ELSE ReleasesSummary(Tail(items))

ListItems(j) == IF IsList(j) THEN j.v ELSE <<>>

\* The pair (tags, metadata), as [tags |-> list, metadata |-> dict].
_extract_track_features(recording) ==
    LET tags == TagItems(ListItems(Get(recording, "tags")), TagSource)
                    \o TagItems(ListItems(Get(recording, "genres")), GenreSource)
        unique_artists == UniqueArtists(ArtistNames(ListItems(Get(recording, "artist-credit"))), {})
        length == Get(recording, "length")
        metadata ==
            [mbid |-> StrOrNull(Get(recording, "id")),
             title |-> StrOrNull(Get(recording, "title")),
             length_ms |-> IF length.k \in {"int", "bool"} THEN length ELSE JNull,
             disambiguation |-> StrOrNull(Get(recording, "disambiguation")),
             artists |-> JList([i \in 1..Len(unique_artists) |-> JStr(unique_artists[i])]),
             releases |-> JList(ReleasesSummary(ListItems(Get(recording, "releases"))))]
    IN  [tags |-> JList(tags), metadata |-> JDict(metadata)]

\* _count_value raises inside one of the two tag loops: an item that passes
\* the name tests has a count that int() cannot hold.
CountRaises(items) ==
    \E i \in 1..Len(items) :
        HasName(items[i]) /\ IntOverflows(GetOr(items[i], "count", JInt(0)))

_extract_track_features_raises(recording) ==
    \/ CountRaises(ListItems(Get(recording, "tags")))
    \/ CountRaises(ListItems(Get(recording, "genres")))

NoError == [kind |-> "no_error"]

\* The result is Ok(recording), Ok(JNull) for None, or the error raised.
_lookup_recording_by_mbid(env_value, mbid, net1, net2) ==
    LET primary_payload == _musicbrainz_request_json(env_value, net1)
        primary_error == IF primary_payload.kind = "ok" THEN NoError ELSE primary_payload
        fallback_payload == _musicbrainz_request_json(env_value, net2)
        recordings == Get(fallback_payload.value, "recordings")
    IN  IF primary_payload = TimeoutError THEN TimeoutError
        ELSE IF primary_payload.kind = "ok" /\ IsStr(Get(primary_payload.value, "id"))
        THEN primary_payload
        ELSE IF fallback_payload = TimeoutError THEN TimeoutError
        ELSE IF fallback_payload.kind # "ok"
        THEN IF primary_error # NoError THEN primary_error ELSE fallback_payload
        ELSE IF ~IsList(recordings)
        THEN IF /\ primary_error.kind = "lookup_error"
                /\ primary_error.status_code \notin {0, 404}
             THEN primary_error
             ELSE Ok(JNull)
        ELSE Ok(_pick_best_recording(recordings.v, Some(mbid)))

\* urlopen calls _lookup_recording_by_mbid makes.
LookupNetcalls(env_value, net1) ==
    LET primary_payload == _musicbrainz_request_json(env_value, net1)
    IN  IF ~MbReachesNetwork(env_value) THEN 0
        ELSE IF primary_payload = TimeoutError THEN 1
        ELSE IF primary_payload.kind = "ok" /\ IsStr(Get(primary_payload.value, "id"))
             THEN 1 ELSE 2

\* json.dumps(value, separators=(",", ":")) and json.loads(text): the text is
\* held as the document it writes down.
json_dumps(value) == [json_text |-> value]
json_loads(text) == text.json_text

\* A negative result written as metadata without the flag.
SentinelWithoutFlag == EmptyDict

MissingSentinel == JDict([f \in {"__missing__"} |-> JTrue])

_get_track_features_row(table, mbid) == FetchOne(table, mbid)

_upsert_track_features(table, mbid, tags, metadata, now, ttl_seconds) ==
    UpsertRow(table, mbid,
              [tags_json |-> json_dumps(tags), metadata_json |-> json_dumps(metadata)],
              now, ttl_seconds)

\* An UPDATE that sets backoff_until to now itself.
BackoffWithoutWindow(table, mbid, now) == UpdateBackoff(table, mbid, now)

_set_track_features_backoff(table, mbid, now) ==
    UpdateBackoff(table, mbid, now + ERROR_BACKOFF_SECONDS)

\* A decoding that does not look for the flag.
DecodeWithoutSentinel(value) ==
    Some([tags |-> json_loads(value.tags_json), metadata |-> json_loads(value.metadata_json)])

\* The argument is the row's (tags_json, metadata_json); the result is optional.
_decode_track_features_row(value) ==
    LET tags == IF IsList(json_loads(value.tags_json))
                THEN json_loads(value.tags_json) ELSE JList(<<>>)
        metadata == IF IsDict(json_loads(value.metadata_json))
                    THEN json_loads(value.metadata_json) ELSE EmptyDict
    IN  IF Get(metadata, "__missing__") = JTrue THEN None
        ELSE Some([tags |-> tags, metadata |-> metadata])

(***************************************************************************)
(* State.                                                                  *)
(***************************************************************************)
VARIABLES
    clock,              \* time.time() in whole seconds (_epoch_seconds)
    ticks,              \* clock advances so far
    started,            \* calls started so far
    MUSICBRAINZ_USER_AGENT, \* the environment variable ("" when unset)
    spotify_to_isrc,    \* table spotify_to_isrc
    isrc_to_mbid,       \* table isrc_to_mbid
    track_features,     \* table track_features
    tokens,             \* the token store: session id -> token set or JNull
    workload,           \* the table the callers of this behaviour resolve against
    th,                 \* per thread: the running call's position and locals
    monotonic,          \* time.monotonic() in tenths of a second
    _MB_THROTTLE_LOCK,  \* the thread that holds the lock, 0 when it is free
    _LAST_MUSICBRAINZ_REQUEST_MONO  \* the last-request timestamp (line 25)

\* The request gate's state.  It orders and delays the requests and decides
\* no result and no row, so the behaviours of the stages leave it aside.
gate == <<monotonic, _MB_THROTTLE_LOCK, _LAST_MUSICBRAINZ_REQUEST_MONO>>

vars == <<clock, ticks, started, MUSICBRAINZ_USER_AGENT, spotify_to_isrc,
          isrc_to_mbid, track_features, tokens, workload, th, gate>>

\* The gate before any request: the lock free, the timestamp 0.0.
GateIdle ==
    /\ monotonic = 0
    /\ _MB_THROTTLE_LOCK = 0
    /\ _LAST_MUSICBRAINZ_REQUEST_MONO = 0

Pending == [kind |-> "pending"]
Return(value) == [kind |-> "return", value |-> value]

\* A thread that runs no call.  outcome tells how the last call ended.  For a
\* stage: "rejected" (empty key), "hit" (served from a usable row), "stored"
\* (lookup succeeded, row upserted), "stale" (lookup failed, row served and
\* backed off), "unknown" (lookup failed, no row).  For _request_for_session:
\* the exit taken.  attempts lists the calls of request_fn: the access token
\* passed and the result;
\* arg is the industry code as the caller of mbid_from_isrc passed it; delay
\* is the argument of time.sleep in the gate; answers holds what the network
\* gave to the direct lookup and to the search of a recording, where the
\* behaviour keeps it; conn is the number of store connections the call has
\* open (the with-blocks of _db_connection, lines 55-69).
IdleFrame ==
    [op |-> "none", pc |-> "idle", arg |-> <<>>, key |-> <<>>, session |-> "", now |-> 0,
     cached_value |-> None, fetched |-> None, fetch_failed |-> FALSE, delay |-> 0,
     answers |-> <<>>, lookups |-> 0, netcalls |-> 0, token_data |-> JNull, refreshed_tokens |-> JNull,
     attempts |-> <<>>, conn |-> 0,
     refreshes |-> 0, ret |-> Pending, outcome |-> "none"]

\* The workloads: the direct calls against each table, and the calls made on
\* behalf of a session.
Workloads == {"spotify_to_isrc", "isrc_to_mbid", "track_features"}

\* The calls a behaviour may hold, by workload.
CallLimit(table) ==
    IF table \in Workloads THEN MaxCalls ELSE MaxSessionCalls

\* The tables are disjoint and no call touches two of them, so a behaviour
\* holds the calls made against one table.
CanStart(t, table) ==
    /\ workload = table
    /\ th[t].pc \in {"idle", "done"}
    /\ started < CallLimit(table)

\* The frame of a call that ends: its locals are dropped, what it was given
\* and what it did is kept.
Ended(frame, outcome, ret) ==
    [IdleFrame EXCEPT !.op = frame.op, !.pc = "done", !.arg = frame.arg,
                      !.key = frame.key, !.session = frame.session,
                      !.answers = frame.answers, !.lookups = frame.lookups, !.netcalls = frame.netcalls,
                      !.attempts = frame.attempts, !.refreshes = frame.refreshes,
                      !.ret = ret, !.outcome = outcome]

Finished(frame, outcome, value) == Ended(frame, outcome, Return(value))

\* What the try-block of a stage leaves: fetch_failed, the value extracted,
\* and the network calls it made; raised when an exception left the block
\* through no except clause.
Lookup(fetch_failed, fetched, netcalls) ==
    [fetch_failed |-> fetch_failed, fetched |-> fetched, netcalls |-> netcalls,
     raised |-> FALSE]

\* The try-block left by the exception result after netcalls network calls.
LookupRaised(result, netcalls) ==
    [fetch_failed |-> FALSE, fetched |-> None, netcalls |-> netcalls, raised |-> TRUE]

\* What a result of the client means to the try-block around it.
LookupOf(result, fetched, netcalls) ==
    IF result = TimeoutError THEN LookupRaised(result, netcalls)
    ELSE Lookup(result.kind # "ok", IF result.kind = "ok" THEN fetched ELSE None, netcalls)

\* The frame once the stage's lookup has ended: at the re-read, or done when
\* the exception leaves the stage function.
AfterLookup(frame, lookup) ==
    LET counted == [frame EXCEPT !.lookups = @ + 1, !.netcalls = @ + lookup.netcalls]
    IN  IF lookup.raised THEN Ended(counted, "raised", TimeoutError)
        ELSE [counted EXCEPT !.pc = "reread", !.fetch_failed = lookup.fetch_failed,
                             !.fetched = lookup.fetched]

\* A failure branch that goes to the UPDATE whether or not there is a row.
AlwaysBackoff(frame, cached_row, now) ==
    [frame EXCEPT !.pc = "backoff", !.now = now, !.cached_value = None]

\* A failure branch that goes by the row read before the lookup.  A call that
\* came to the lookup while the clock stood still had found no row.
ServeRowSeenBefore(frame, cached_row, now) == Finished(frame, "unknown", None)

\* The frame after the re-read that follows a failed lookup.
AfterFailedReread(frame, cached_row, now) ==
    IF cached_row.present
    THEN [frame EXCEPT !.pc = "backoff", !.now = now, !.cached_value = cached_row.value,
                       !.conn = 1]
    ELSE Finished(frame, "unknown", None)

(***************************************************************************)
(* Inputs and what the network answers.                                    *)
(***************************************************************************)
Sessions == {"s1"}

\* Values of the environment variable MUSICBRAINZ_USER_AGENT.
EnvValues == {<<>>, <<" ">>, <<"u">>}

\* Track ids as callers pass them.
TrackIdInputs == {<<>>, <<" ">>, <<"t">>, <<"t", " ">>}

\* Industry codes as callers pass them.
IsrcInputs == {<<>>, <<" ">>, <<"a">>, <<" ", "A", " ">>}

\* Recording identities as callers pass them.
MbidInputs == {<<>>, <<" ">>, <<"m">>, <<" ", "m">>}

ExternalIds(j) == JDict([f \in {"external_ids"} |-> j])

\* Track payloads of the provider.
TrackPayloads ==
    { ExternalIds(JDict([f \in {"isrc"} |-> JStr(<<" ", "a">>)])),
      ExternalIds(JDict([f \in {"isrc"} |-> JStr(<<"b">>)])),
      ExternalIds(JDict([f \in {"isrc"} |-> JStr(<<" ">>)])),
      ExternalIds(JDict([f \in {"isrc"} |-> JInt(8)])),
      ExternalIds(EmptyDict),
      ExternalIds(JStr(<<"x">>)),
      JDict([f \in {"id"} |-> JStr(<<"t">>)]) }

\* What the network gives to a provider request.
ProviderResponses ==
    {HttpError(401), HttpError(403), HttpError(500), UrlError, ReadTimeout, EmptyBody,
     InvalidJson, JsonBody(JList(<<>>))} \cup {JsonBody(p) : p \in TrackPayloads}

\* Token sets the token endpoint answers with.
RefreshPayloads ==
    { JDict([f \in {"access_token"} |-> JStr(<<"n">>)]),
      JDict([f \in {"access_token", "refresh_token"} |->
                IF f = "access_token" THEN JStr(<<"n">>) ELSE JStr(<<"q">>)]),
      JDict([f \in {"access_token", "refresh_token"} |->
                IF f = "access_token" THEN JStr(<<"n">>) ELSE JStr(<<>>)]),
      JDict([f \in {"access_token", "refresh_token", "expires_in"} |->
                CASE f = "access_token" -> JStr(<<"n">>)
                  [] f = "refresh_token" -> JNull
                  [] f = "expires_in" -> JInt(3600)]),
      JDict([f \in {"access_token", "scope"} |->
                IF f = "access_token" THEN JStr(<<"n">>) ELSE JStr(<<"z">>)]),
      JDict([f \in {"access_token"} |-> JStr(<<>>)]),
      JDict([f \in {"refresh_token"} |-> JStr(<<"q">>)]) }

\* What the network gives to a token refresh.
RefreshResponses ==
    {HttpError(400), UrlError, ReadTimeout, EmptyBody, InvalidJson, JsonBody(JList(<<>>))}
        \cup {JsonBody(p) : p \in RefreshPayloads}

\* Token sets a session may hold when a request starts.
StoredTokenSets ==
    { JNull,
      EmptyDict,
      JDict([f \in {"access_token"} |-> JStr(<<"o">>)]),
      JDict([f \in {"refresh_token"} |-> JStr(<<"p">>)]),
      JDict([f \in {"access_token", "refresh_token"} |->
                IF f = "access_token" THEN JStr(<<"o">>) ELSE JStr(<<"p">>)]),
      JDict([f \in {"access_token", "refresh_token"} |->
                IF f = "access_token" THEN JStr(<<>>) ELSE JStr(<<"p">>)]),
      JDict([f \in {"access_token", "refresh_token", "scope"} |->
                CASE f = "access_token" -> JStr(<<"o">>)
                  [] f = "refresh_token" -> JStr(<<>>)
                  [] f = "scope" -> JStr(<<"y">>)]),
      JDict([f \in {"access_token", "refresh_token", "scope", "expires_in"} |->
                CASE f = "access_token" -> JStr(<<"o">>)
                  [] f = "refresh_token" -> JStr(<<"p">>)
                  [] f = "scope" -> JStr(<<"y">>)
                  [] f = "expires_in" -> JInt(1)]) }

Scored(id, score) == JDict([f \in {"id", "score"} |-> IF f = "id" THEN id ELSE score])

Recordings(j) == JDict([f \in {"recordings"} |-> j])

\* Bodies of the ISRC search.
IsrcSearchPayloads ==
    { Recordings(JList(<< Scored(JStr(<<"x", "1">>), JInt(80)),
                          Scored(JStr(<<"x", "8">>), JInt(100)) >>)),
      Recordings(JList(<< Scored(JStr(<<" ", "x", "1">>), JStr(<<"8">>)),
                          JStr(<<"x">>),
                          JDict([f \in {"id"} |-> JStr(<<"x", "8">>)]) >>)),
      Recordings(JList(<< JDict([f \in {"id"} |-> JInt(8)]) >>)),
      Recordings(JList(<< EmptyDict >>)),
      Recordings(JList(<<>>)),
      Recordings(JStr(<<"x">>)),
      JDict([f \in {"count"} |-> JInt(0)]) }

\* What the network gives to an ISRC search.
IsrcSearchResponses ==
    {HttpError(404), HttpError(503), UrlError, ReadTimeout, EmptyBody, InvalidJson,
     JsonBody(JList(<<>>))}
        \cup {JsonBody(p) : p \in IsrcSearchPayloads}

Named(name) == JDict([f \in {"name"} |-> name])

\* A recording with tags, genres, credits and releases.
FullRecording ==
    JDict([id |-> JStr(<<"m">>),
           title |-> JStr(<<"T">>),
           length |-> JInt(8),
           tags |-> JList(<< JDict([name |-> JStr(<<"a", " ">>), count |-> JInt(8)]),
                             Named(JStr(<<" ">>)),
                             JStr(<<"x">>) >>),
           genres |-> JList(<< JDict([name |-> JStr(<<"b">>), count |-> JStr(<<"x">>)]) >>),
           releases |-> JList(<< JDict([id |-> JStr(<<"r">>), title |-> JInt(1)]) >>)]
          @@ ("artist-credit" :> JList(<< JDict([name |-> JStr(<<"A">>),
                                                 artist |-> Named(JStr(<<"a">>))]),
                                          Named(JStr(<<"B">>)) >>)))

\* Bodies of the direct recording lookup.
RecordingPayloads ==
    { FullRecording,
      JDict([f \in {"id"} |-> JStr(<<"m">>)]),
      JDict([f \in {"id"} |-> JInt(8)]),
      JDict([f \in {"title"} |-> JStr(<<"T">>)]) }

RecordingResponses ==
    {HttpError(404), HttpError(503), UrlError, ReadTimeout, EmptyBody, InvalidJson}
        \cup {JsonBody(p) : p \in RecordingPayloads}

\* Bodies of the search by identity.
RecordingSearchPayloads ==
    { Recordings(JList(<< Scored(JStr(<<"m">>), JInt(100)) >>)),
      Recordings(JList(<< Scored(JStr(<<"x", "8">>), JInt(100)) >>)),
      Recordings(JList(<<>>)),
      Recordings(JNull),
      EmptyDict }

RecordingSearchResponses ==
    {HttpError(503), UrlError, ReadTimeout, InvalidJson}
        \cup {JsonBody(p) : p \in RecordingSearchPayloads}

(***************************************************************************)
(* _request_for_session                                                    *)
(***************************************************************************)
\* Lines 333-339 and 366-372 of feature_store.py: the try-block around the
\* track request, given the request's result.
TrackLookup(result, netcalls) ==
    LookupOf(result,
             IF result.kind = "ok" THEN _extract_isrc_from_track(result.value) ELSE None,
             netcalls)

\* The request function the call wraps (lines 368-376).
RequestFn(frame, net) ==
    IF frame.op = "get_current_user_for_session"
    THEN get_current_user(net)
    ELSE get_track(frame.key, net)

\* The frame when _request_for_session ends with result: the caller is the
\* session-scoped stage (lines 368-372 of feature_store.py) or the boundary.
AdapterEnded(frame, outcome, result) ==
    IF frame.op = "get_current_user_for_session"
    THEN Ended(frame, outcome, IF result.kind = "ok" THEN Return(result.value) ELSE result)
    ELSE [AfterLookup(frame, TrackLookup(result, 0))
            EXCEPT !.token_data = JNull, !.refreshed_tokens = JNull, !.attempts = <<>>,
                   !.refreshes = 0]

\* Lines 328-335: read the token set; no tokens or no usable access token ends
\* the call; frame is the caller's frame, with its session.
RequestStarted(frame, store) ==
    LET token_data == get_tokens(store, frame.session)
        access_token == IF IsDict(token_data) THEN Get(token_data, "access_token") ELSE JNull
    IN  IF ~Truthy(token_data) THEN AdapterEnded(frame, "no_tokens", NotAuthorized)
        ELSE IF ~IsNonEmptyStr(access_token)
             THEN AdapterEnded(frame, "no_access_token", NotAuthorized)
             ELSE [frame EXCEPT !.pc = "attempt1", !.token_data = token_data]

\* The store after lines 328-335.
StoreAfterStart(frame, store) ==
    LET token_data == get_tokens(store, frame.session)
    IN  IF Truthy(token_data) /\ ~IsNonEmptyStr(Get(token_data, "access_token"))
        THEN clear_tokens(store, frame.session)
        ELSE store

\* A first attempt that goes to the refresh after any error response.
RefreshOnAnyError(t, net) ==
    LET f == th[t]
        access_token == Get(f.token_data, "access_token")
        result == RequestFn(f, net)
        refresh_token == Get(f.token_data, "refresh_token")
        tried == [f EXCEPT !.attempts = Append(@, [token |-> access_token.v,
                                                   result |-> result]),
                           !.netcalls = @ + 1]
    IN  /\ f.pc = "attempt1"
        /\ IF result.kind = "ok"
           THEN /\ th' = [th EXCEPT ![t] = AdapterEnded(tried, "ok_first", result)]
                /\ UNCHANGED tokens
           ELSE IF result = TimeoutError
           THEN /\ th' = [th EXCEPT ![t] = AdapterEnded(tried, "raised_first", result)]
                /\ UNCHANGED tokens
           ELSE IF ~IsNonEmptyStr(refresh_token)
           THEN /\ tokens' = clear_tokens(tokens, f.session)
                /\ th' = [th EXCEPT ![t] = AdapterEnded(tried, "no_refresh_token", NotAuthorized)]
           ELSE /\ th' = [th EXCEPT ![t] = [tried EXCEPT !.pc = "refresh"]]
                /\ UNCHANGED tokens
        /\ UNCHANGED <<gate, clock, ticks, started, MUSICBRAINZ_USER_AGENT, spotify_to_isrc,
                       isrc_to_mbid, track_features, workload>>

\* A first attempt that clears the session after an error that is no 401.
ClearOnAnyError(t, net) ==
    LET f == th[t]
        access_token == Get(f.token_data, "access_token")
        result == RequestFn(f, net)
        refresh_token == Get(f.token_data, "refresh_token")
        tried == [f EXCEPT !.attempts = Append(@, [token |-> access_token.v,
                                                   result |-> result]),
                           !.netcalls = @ + 1]
    IN  /\ f.pc = "attempt1"
        /\ IF result.kind = "ok"
           THEN /\ th' = [th EXCEPT ![t] = AdapterEnded(tried, "ok_first", result)]
                /\ UNCHANGED tokens
           ELSE IF result = TimeoutError
           THEN /\ th' = [th EXCEPT ![t] = AdapterEnded(tried, "raised_first", result)]
                /\ UNCHANGED tokens
           ELSE IF result.status_code # 401
           THEN /\ th' = [th EXCEPT ![t] = AdapterEnded(tried, "error_first", result)]
                /\ tokens' = clear_tokens(tokens, f.session)
           ELSE IF ~IsNonEmptyStr(refresh_token)
           THEN /\ tokens' = clear_tokens(tokens, f.session)
                /\ th' = [th EXCEPT ![t] = AdapterEnded(tried, "no_refresh_token", NotAuthorized)]
           ELSE /\ th' = [th EXCEPT ![t] = [tried EXCEPT !.pc = "refresh"]]
                /\ UNCHANGED tokens
        /\ UNCHANGED <<gate, clock, ticks, started, MUSICBRAINZ_USER_AGENT, spotify_to_isrc,
                       isrc_to_mbid, track_features, workload>>

\* Lines 337-346: the first attempt; a 401 without a usable refresh token
\* clears the tokens.
_request_for_session_attempt1(t, net) ==
    LET f == th[t]
        access_token == Get(f.token_data, "access_token")
        result == RequestFn(f, net)
        refresh_token == Get(f.token_data, "refresh_token")
        tried == [f EXCEPT !.attempts = Append(@, [token |-> access_token.v,
                                                   result |-> result]),
                           !.netcalls = @ + 1]
    IN  /\ f.pc = "attempt1"
        /\ IF result.kind = "ok"
           THEN /\ th' = [th EXCEPT ![t] = AdapterEnded(tried, "ok_first", result)]
                /\ UNCHANGED tokens
           ELSE IF result = TimeoutError
           THEN /\ th' = [th EXCEPT ![t] = AdapterEnded(tried, "raised_first", result)]
                /\ UNCHANGED tokens
           ELSE IF result.status_code # 401
           THEN /\ th' = [th EXCEPT ![t] = AdapterEnded(tried, "error_first", result)]
                /\ UNCHANGED tokens
           ELSE IF ~IsNonEmptyStr(refresh_token)
           THEN /\ tokens' = clear_tokens(tokens, f.session)
                /\ th' = [th EXCEPT ![t] = AdapterEnded(tried, "no_refresh_token", NotAuthorized)]
           ELSE /\ th' = [th EXCEPT ![t] = [tried EXCEPT !.pc = "refresh"]]
                /\ UNCHANGED tokens
        /\ UNCHANGED <<gate, clock, ticks, started, MUSICBRAINZ_USER_AGENT, spotify_to_isrc,
                       isrc_to_mbid, track_features, workload>>

\* A refresh whose failure clears the session.
RefreshClearingOnFailure(t, net) ==
    LET f == th[t]
        refresh_token == Get(f.token_data, "refresh_token")
        refreshed_tokens == _refresh_access_token(net)
        merged_tokens == MergeTokens(f.token_data, refreshed_tokens.value, refresh_token)
        called == [f EXCEPT !.refreshes = @ + 1, !.netcalls = @ + 1]
    IN  /\ f.pc = "refresh"
        /\ IF refreshed_tokens = TimeoutError
           THEN /\ th' = [th EXCEPT ![t] = AdapterEnded(called, "raised_refresh", refreshed_tokens)]
                /\ UNCHANGED tokens
           ELSE IF refreshed_tokens.kind # "ok"
           THEN /\ th' = [th EXCEPT ![t] = AdapterEnded(called, "refresh_failed", refreshed_tokens)]
                /\ tokens' = clear_tokens(tokens, f.session)
           ELSE /\ tokens' = store_tokens(tokens, f.session, merged_tokens)
                /\ th' = [th EXCEPT ![t] =
                            [called EXCEPT !.pc = "attempt2", !.token_data = merged_tokens,
                                           !.refreshed_tokens = refreshed_tokens.value]]
        /\ UNCHANGED <<gate, clock, ticks, started, MUSICBRAINZ_USER_AGENT, spotify_to_isrc,
                       isrc_to_mbid, track_features, workload>>

\* Lines 348-357: the refresh, the merge and store_tokens.
_request_for_session_refresh(t, net) ==
    LET f == th[t]
        refresh_token == Get(f.token_data, "refresh_token")
        refreshed_tokens == _refresh_access_token(net)
        merged_tokens == MergeTokens(f.token_data, refreshed_tokens.value, refresh_token)
        refreshed_access_token == Get(merged_tokens, "access_token")
        called == [f EXCEPT !.refreshes = @ + 1, !.netcalls = @ + 1]
    IN  /\ f.pc = "refresh"
        /\ IF refreshed_tokens = TimeoutError
           THEN /\ th' = [th EXCEPT ![t] = AdapterEnded(called, "raised_refresh", refreshed_tokens)]
                /\ UNCHANGED tokens
           ELSE IF refreshed_tokens.kind # "ok"
           THEN /\ th' = [th EXCEPT ![t] = AdapterEnded(called, "refresh_failed", refreshed_tokens)]
                /\ UNCHANGED tokens
           ELSE IF ~IsNonEmptyStr(refreshed_access_token)
           THEN /\ tokens' = clear_tokens(store_tokens(tokens, f.session, merged_tokens),
                                          f.session)
                /\ th' = [th EXCEPT ![t] = AdapterEnded(called, "no_refreshed_access_token",
                                                        NotAuthorized)]
           ELSE /\ tokens' = store_tokens(tokens, f.session, merged_tokens)
                /\ th' = [th EXCEPT ![t] =
                            [called EXCEPT !.pc = "attempt2", !.token_data = merged_tokens,
                                           !.refreshed_tokens = refreshed_tokens.value]]
        /\ UNCHANGED <<gate, clock, ticks, started, MUSICBRAINZ_USER_AGENT, spotify_to_isrc,
                       isrc_to_mbid, track_features, workload>>

\* A retry that leaves the token store alone.
KeepTokens(store, session_id, result) == store

\* The store after lines 359-365: a 401 on the retry clears the session.
StoreAfterRetry(store, session_id, result) ==
    IF result.kind = "error" /\ result.status_code = 401
    THEN clear_tokens(store, session_id)
    ELSE store

\* Lines 359-365: the retry with the refreshed access token.
_request_for_session_attempt2(t, net) ==
    LET f == th[t]
        refreshed_access_token == Get(f.token_data, "access_token")
        result == RequestFn(f, net)
        tried == [f EXCEPT !.attempts = Append(@, [token |-> refreshed_access_token.v,
                                                   result |-> result]),
                           !.netcalls = @ + 1]
    IN  /\ f.pc = "attempt2"
        /\ th' = [th EXCEPT ![t] =
                    IF result.kind = "ok" THEN AdapterEnded(tried, "ok_second", result)
                    ELSE IF result = TimeoutError
                    THEN AdapterEnded(tried, "raised_second", result)
                    ELSE IF result.status_code = 401
                    THEN AdapterEnded(tried, "auth_second", NotAuthorized)
                    ELSE AdapterEnded(tried, "error_second", result)]
        /\ tokens' = StoreAfterRetry(tokens, f.session, result)
        /\ UNCHANGED <<gate, clock, ticks, started, MUSICBRAINZ_USER_AGENT, spotify_to_isrc,
                       isrc_to_mbid, track_features, workload>>

\* Lines 368-369 with 328-335.
get_current_user_for_session(t, session_id) ==
    LET frame == [IdleFrame EXCEPT !.op = "get_current_user_for_session",
                                   !.session = session_id]
    IN  /\ CanStart(t, "session")
        /\ started' = started + 1
        /\ th' = [th EXCEPT ![t] = RequestStarted(frame, tokens)]
        /\ tokens' = StoreAfterStart(frame, tokens)
        /\ UNCHANGED <<gate, clock, ticks, MUSICBRAINZ_USER_AGENT, spotify_to_isrc,
                       isrc_to_mbid, track_features, workload>>

(***************************************************************************)
(* get_isrc_from_spotify_track and get_isrc_from_spotify_track_for_session *)
(***************************************************************************)
\* The lookups the provider's answers lead to, per track id.
TrackLookups(safe_track_id) ==
    {TrackLookup(get_track(safe_track_id, net), 1) : net \in ProviderResponses}

\* Lines 322-339: strip, reject an empty id, read the cache, serve a usable
\* row; else fetch the track and extract the code (lookup).
get_isrc_from_spotify_track(t, spotify_track_id, lookup) ==
    LET safe_track_id == Strip(spotify_track_id)
        now == clock
        cached_row == _get_spotify_to_isrc_row(spotify_to_isrc, safe_track_id)
        frame == [IdleFrame EXCEPT !.op = "get_isrc_from_spotify_track",
                                   !.key = safe_track_id]
    IN  /\ CanStart(t, "spotify_to_isrc")
        /\ lookup \in TrackLookups(safe_track_id)
        /\ started' = started + 1
        /\ th' = [th EXCEPT ![t] =
                    IF safe_track_id = <<>> THEN Finished(frame, "rejected", None)
                    ELSE IF _is_cache_usable(cached_row, now)
                    THEN Finished(frame, "hit", cached_row.value)
                    ELSE AfterLookup(frame, lookup)]
        /\ UNCHANGED <<gate, clock, ticks, MUSICBRAINZ_USER_AGENT, spotify_to_isrc,
                       isrc_to_mbid, track_features, tokens, workload>>

\* Lines 355-369: the same up to the lookup, which starts _request_for_session.
get_isrc_from_spotify_track_for_session(t, session_id, spotify_track_id) ==
    LET safe_track_id == Strip(spotify_track_id)
        now == clock
        cached_row == _get_spotify_to_isrc_row(spotify_to_isrc, safe_track_id)
        frame == [IdleFrame EXCEPT !.op = "get_isrc_from_spotify_track_for_session",
                                   !.key = safe_track_id, !.session = session_id]
        served == safe_track_id = <<>> \/ _is_cache_usable(cached_row, now)
    IN  /\ CanStart(t, "session_track")
        /\ started' = started + 1
        /\ th' = [th EXCEPT ![t] =
                    IF safe_track_id = <<>> THEN Finished(frame, "rejected", None)
                    ELSE IF _is_cache_usable(cached_row, now)
                    THEN Finished(frame, "hit", cached_row.value)
                    ELSE RequestStarted(frame, tokens)]
        /\ tokens' = IF served THEN tokens ELSE StoreAfterStart(frame, tokens)
        /\ UNCHANGED <<gate, clock, ticks, MUSICBRAINZ_USER_AGENT, spotify_to_isrc,
                       isrc_to_mbid, track_features, workload>>

\* Lines 341-352 and 374-385 up to the UPDATE: read the clock, re-read the row;
\* after a failed lookup return None when there is no row; after a successful
\* one upsert and return.
get_isrc_from_spotify_track_reread(t) ==
    LET f == th[t]
        now == clock
        cached_row == _get_spotify_to_isrc_row(spotify_to_isrc, f.key)
        ttl_seconds == IF IsSome(f.fetched) THEN MAPPING_TTL_SECONDS ELSE NEGATIVE_TTL_SECONDS
    IN  /\ f.op \in {"get_isrc_from_spotify_track", "get_isrc_from_spotify_track_for_session"}
        /\ f.pc = "reread"
        /\ IF f.fetch_failed
           THEN /\ th' = [th EXCEPT ![t] = AfterFailedReread(f, cached_row, now)]
                /\ UNCHANGED spotify_to_isrc
           ELSE /\ spotify_to_isrc' = _upsert_spotify_to_isrc(spotify_to_isrc, f.key, f.fetched,
                                                              now, ttl_seconds)
                /\ th' = [th EXCEPT ![t] = Finished(f, "stored", f.fetched)]
        /\ UNCHANGED <<gate, clock, ticks, started, MUSICBRAINZ_USER_AGENT, isrc_to_mbid,
                       track_features, tokens, workload>>

\* Lines 345-347 and 378-380: the UPDATE of backoff_until, the commit, and the
\* return of the re-read value.
get_isrc_from_spotify_track_backoff(t) ==
    /\ th[t].op \in {"get_isrc_from_spotify_track", "get_isrc_from_spotify_track_for_session"}
    /\ th[t].pc = "backoff"
    /\ spotify_to_isrc' = _set_spotify_to_isrc_backoff(spotify_to_isrc, th[t].key, th[t].now)
    /\ th' = [th EXCEPT ![t] = Finished(@, "stale", th[t].cached_value)]
    /\ UNCHANGED <<gate, clock, ticks, started, MUSICBRAINZ_USER_AGENT, isrc_to_mbid,
                   track_features, tokens, workload>>

\* Lines 322-339 again, with the provider's answer (net) kept in the frame
\* while the call runs.
get_isrc_from_spotify_track_answered(t, spotify_track_id, net) ==
    LET safe_track_id == Strip(spotify_track_id)
        now == clock
        cached_row == _get_spotify_to_isrc_row(spotify_to_isrc, safe_track_id)
        lookup == TrackLookup(get_track(safe_track_id, net), 1)
        frame == [IdleFrame EXCEPT !.op = "get_isrc_from_spotify_track",
                                   !.key = safe_track_id]
    IN  /\ workload = "track_answers"
        /\ th[t].pc \in {"idle", "done"}
        /\ started < MaxCalls
        /\ started' = started + 1
        /\ th' = [th EXCEPT ![t] =
                    IF safe_track_id = <<>> THEN Finished(frame, "rejected", None)
                    ELSE IF _is_cache_usable(cached_row, now)
                    THEN Finished(frame, "hit", cached_row.value)
                    ELSE AfterLookup([frame EXCEPT !.answers = <<net>>], lookup)]
        /\ UNCHANGED <<gate, clock, ticks, MUSICBRAINZ_USER_AGENT, spotify_to_isrc,
                       isrc_to_mbid, track_features, tokens, workload>>

(***************************************************************************)
(* mbid_from_isrc                                                          *)
(***************************************************************************)
\* Lines 434-446: the try-block around the ISRC search.
MbidLookup(env_value, net) ==
    LET payload == _musicbrainz_request_json(env_value, net)
    IN  LookupOf(payload,
                 IF payload.kind = "ok" THEN MbidFromPayload(payload.value) ELSE None,
                 IF MbReachesNetwork(env_value) THEN 1 ELSE 0)

\* The lookups the network's answers lead to, per value of the environment variable.
MbidLookups ==
    [env_value \in EnvValues |-> {MbidLookup(env_value, net) : net \in IsrcSearchResponses}]

\* Lines 423-446: normalize, reject an empty key, read the cache, serve a
\* usable row; else search by ISRC and extract the identity (lookup).
mbid_from_isrc(t, isrc, lookup) ==
    LET normalized_isrc == _normalize_isrc(isrc)
        now == clock
        cached_row == _get_isrc_to_mbid_row(isrc_to_mbid, normalized_isrc)
        frame == [IdleFrame EXCEPT !.op = "mbid_from_isrc", !.arg = isrc,
                                   !.key = normalized_isrc]
    IN  /\ CanStart(t, "isrc_to_mbid")
        /\ lookup \in MbidLookups[MUSICBRAINZ_USER_AGENT]
        /\ started' = started + 1
        /\ th' = [th EXCEPT ![t] =
                    IF normalized_isrc = <<>> THEN Finished(frame, "rejected", None)
                    ELSE IF _is_cache_usable(cached_row, now)
                    THEN Finished(frame, "hit", cached_row.value)
                    ELSE AfterLookup(frame, lookup)]
        /\ UNCHANGED <<gate, clock, ticks, MUSICBRAINZ_USER_AGENT, spotify_to_isrc,
                       isrc_to_mbid, track_features, tokens, workload>>

\* Lines 448-459 up to the UPDATE.
mbid_from_isrc_reread(t) ==
    LET f == th[t]
        now == clock
        cached_row == _get_isrc_to_mbid_row(isrc_to_mbid, f.key)
        ttl_seconds == IF IsSome(f.fetched) THEN MAPPING_TTL_SECONDS ELSE NEGATIVE_TTL_SECONDS
    IN  /\ f.op = "mbid_from_isrc"
        /\ f.pc = "reread"
        /\ IF f.fetch_failed
           THEN /\ th' = [th EXCEPT ![t] = AfterFailedReread(f, cached_row, now)]
                /\ UNCHANGED isrc_to_mbid
           ELSE /\ isrc_to_mbid' = _upsert_isrc_to_mbid(isrc_to_mbid, f.key, f.fetched,
                                                        now, ttl_seconds)
                /\ th' = [th EXCEPT ![t] = Finished(f, "stored", f.fetched)]
        /\ UNCHANGED <<gate, clock, ticks, started, MUSICBRAINZ_USER_AGENT, spotify_to_isrc,
                       track_features, tokens, workload>>

\* Lines 452-454: the UPDATE of backoff_until, the commit, and the return of
\* the re-read value.
mbid_from_isrc_backoff(t) ==
    /\ th[t].op = "mbid_from_isrc"
    /\ th[t].pc = "backoff"
    /\ isrc_to_mbid' = _set_isrc_to_mbid_backoff(isrc_to_mbid, th[t].key, th[t].now)
    /\ th' = [th EXCEPT ![t] = Finished(@, "stale", th[t].cached_value)]
    /\ UNCHANGED <<gate, clock, ticks, started, MUSICBRAINZ_USER_AGENT, spotify_to_isrc,
                   track_features, tokens, workload>>

\* Lines 423-446 again, with the network's answer (net) kept in the frame
\* while the call runs.
mbid_from_isrc_answered(t, isrc, net) ==
    LET normalized_isrc == _normalize_isrc(isrc)
        now == clock
        cached_row == _get_isrc_to_mbid_row(isrc_to_mbid, normalized_isrc)
        lookup == MbidLookup(MUSICBRAINZ_USER_AGENT, net)
        frame == [IdleFrame EXCEPT !.op = "mbid_from_isrc", !.arg = isrc,
                                   !.key = normalized_isrc]
    IN  /\ workload = "isrc_answers"
        /\ th[t].pc \in {"idle", "done"}
        /\ started < MaxCalls
        /\ started' = started + 1
        /\ th' = [th EXCEPT ![t] =
                    IF normalized_isrc = <<>> THEN Finished(frame, "rejected", None)
                    ELSE IF _is_cache_usable(cached_row, now)
                    THEN Finished(frame, "hit", cached_row.value)
                    ELSE AfterLookup([frame EXCEPT !.answers = <<net>>], lookup)]
        /\ UNCHANGED <<gate, clock, ticks, MUSICBRAINZ_USER_AGENT, spotify_to_isrc,
                       isrc_to_mbid, track_features, tokens, workload>>

(***************************************************************************)
(* get_track_features                                                      *)
(***************************************************************************)
\* Lines 611-619: the try-block around the recording lookup.
FeaturesLookup(env_value, normalized_mbid, net1, net2) ==
    LET recording == _lookup_recording_by_mbid(env_value, normalized_mbid, net1, net2)
    IN  LookupOf(recording,
                 IF recording.kind = "ok" /\ Truthy(recording.value)
                 THEN Some(_extract_track_features(recording.value))
                 ELSE None,
                 LookupNetcalls(env_value, net1))

\* The lookups the network's answers lead to, per value of the environment
\* variable and identity.
FeaturesLookups ==
    [env_value \in EnvValues, normalized_mbid \in {_normalize_mbid(m) : m \in MbidInputs} |->
        {FeaturesLookup(env_value, normalized_mbid, net1, net2) :
            net1 \in RecordingResponses, net2 \in RecordingSearchResponses}]

\* A stage that reads the cache and looks the identity up without rejecting an
\* empty one first.
LookupWithoutRejection(t, mbid, lookup) ==
    LET normalized_mbid == _normalize_mbid(mbid)
        cached_row == _get_track_features_row(track_features, normalized_mbid)
        frame == [IdleFrame EXCEPT !.op = "get_track_features", !.key = normalized_mbid]
    IN  /\ CanStart(t, "track_features")
        /\ lookup \in FeaturesLookups[MUSICBRAINZ_USER_AGENT, normalized_mbid]
        /\ started' = started + 1
        /\ th' = [th EXCEPT ![t] =
                    IF _is_cache_usable(cached_row, clock)
                    THEN Finished(frame, "hit", _decode_track_features_row(cached_row.value))
                    ELSE AfterLookup(frame, lookup)]
        /\ UNCHANGED <<gate, clock, ticks, MUSICBRAINZ_USER_AGENT, spotify_to_isrc,
                       isrc_to_mbid, track_features, tokens, workload>>

\* Lines 600-619: strip, reject an empty identity, read the cache, serve a
\* usable row decoded; else look the recording up and extract its features
\* (lookup).
get_track_features(t, mbid, lookup) ==
    LET normalized_mbid == _normalize_mbid(mbid)
        now == clock
        cached_row == _get_track_features_row(track_features, normalized_mbid)
        frame == [IdleFrame EXCEPT !.op = "get_track_features", !.key = normalized_mbid]
    IN  /\ CanStart(t, "track_features")
        /\ lookup \in FeaturesLookups[MUSICBRAINZ_USER_AGENT, normalized_mbid]
        /\ started' = started + 1
        /\ th' = [th EXCEPT ![t] =
                    IF normalized_mbid = <<>> THEN Finished(frame, "rejected", None)
                    ELSE IF _is_cache_usable(cached_row, now)
                    THEN Finished(frame, "hit", _decode_track_features_row(cached_row.value))
                    ELSE AfterLookup(frame, lookup)]
        /\ UNCHANGED <<gate, clock, ticks, MUSICBRAINZ_USER_AGENT, spotify_to_isrc,
                       isrc_to_mbid, track_features, tokens, workload>>

\* Lines 600-619 again, with the network's answers to the direct lookup
\* (net1) and to the search (net2) kept in the frame while the call runs.
get_track_features_answered(t, mbid, net1, net2) ==
    LET normalized_mbid == _normalize_mbid(mbid)
        now == clock
        cached_row == _get_track_features_row(track_features, normalized_mbid)
        lookup == FeaturesLookup(MUSICBRAINZ_USER_AGENT, normalized_mbid, net1, net2)
        frame == [IdleFrame EXCEPT !.op = "get_track_features", !.key = normalized_mbid]
    IN  /\ workload = "recording"
        /\ th[t].pc \in {"idle", "done"}
        /\ started < MaxRecordingCalls
        /\ started' = started + 1
        /\ th' = [th EXCEPT ![t] =
                    IF normalized_mbid = <<>> THEN Finished(frame, "rejected", None)
                    ELSE IF _is_cache_usable(cached_row, now)
                    THEN Finished(frame, "hit", _decode_track_features_row(cached_row.value))
                    ELSE AfterLookup([frame EXCEPT !.answers = <<net1, net2>>], lookup)]
        /\ UNCHANGED <<gate, clock, ticks, MUSICBRAINZ_USER_AGENT, spotify_to_isrc,
                       isrc_to_mbid, track_features, tokens, workload>>

\* Lines 621-649 up to the UPDATE.
get_track_features_reread(t) ==
    LET f == th[t]
        now == clock
        cached_row == _get_track_features_row(track_features, f.key)
    IN  /\ f.op = "get_track_features"
        /\ f.pc = "reread"
        /\ IF f.fetch_failed
           THEN /\ th' = [th EXCEPT ![t] = AfterFailedReread(f, cached_row, now)]
                /\ UNCHANGED track_features
           ELSE IF ~IsSome(f.fetched)
           THEN /\ track_features' = _upsert_track_features(track_features, f.key, JList(<<>>),
                                            MissingSentinel, now, NEGATIVE_TTL_SECONDS)
                /\ th' = [th EXCEPT ![t] = Finished(f, "stored", None)]
           ELSE /\ track_features' = _upsert_track_features(track_features, f.key,
                                            f.fetched[2].tags, f.fetched[2].metadata, now,
                                            TRACK_FEATURES_TTL_SECONDS)
                /\ th' = [th EXCEPT ![t] = Finished(f, "stored", f.fetched)]
        /\ UNCHANGED <<gate, clock, ticks, started, MUSICBRAINZ_USER_AGENT, spotify_to_isrc,
                       isrc_to_mbid, tokens, workload>>

\* Lines 625-627: the UPDATE of backoff_until, the commit, and the return of
\* the re-read row decoded.
get_track_features_backoff(t) ==
    /\ th[t].op = "get_track_features"
    /\ th[t].pc = "backoff"
    /\ track_features' = _set_track_features_backoff(track_features, th[t].key, th[t].now)
    /\ th' = [th EXCEPT ![t] =
                Finished(@, "stale", _decode_track_features_row(th[t].cached_value))]
    /\ UNCHANGED <<gate, clock, ticks, started, MUSICBRAINZ_USER_AGENT, spotify_to_isrc,
                   isrc_to_mbid, tokens, workload>>

(***************************************************************************)
(* _throttle_musicbrainz_requests                                          *)
(***************************************************************************)
\* Lines 116-121: the interval; a gate without an interval lets the caller
\* through, else the caller comes to the lock.
_throttle_musicbrainz_requests(t) ==
    LET interval == IF MB_MIN_INTERVAL_SECONDS > 0 THEN MB_MIN_INTERVAL_SECONDS ELSE 0
        frame == [IdleFrame EXCEPT !.op = "_throttle_musicbrainz_requests"]
    IN  /\ workload = "throttle"
        /\ th[t].pc \in {"idle", "done"}
        /\ started < MaxGateCalls
        /\ started' = started + 1
        /\ th' = [th EXCEPT ![t] = IF interval <= 0 THEN Finished(frame, "open", None)
                                   ELSE [frame EXCEPT !.pc = "acquire"]]
        /\ UNCHANGED <<clock, ticks, MUSICBRAINZ_USER_AGENT, spotify_to_isrc, isrc_to_mbid,
                       track_features, tokens, workload, gate>>

\* An entry that does not wait for the lock.
EnterWithoutLock(t) ==
    /\ th[t].op = "_throttle_musicbrainz_requests"
    /\ th[t].pc = "acquire"
    /\ _MB_THROTTLE_LOCK' = t
    /\ th' = [th EXCEPT ![t].pc = "check"]
    /\ UNCHANGED <<clock, ticks, started, MUSICBRAINZ_USER_AGENT, spotify_to_isrc,
                   isrc_to_mbid, track_features, tokens, workload, monotonic,
                   _LAST_MUSICBRAINZ_REQUEST_MONO>>

\* Line 122: `with _MB_THROTTLE_LOCK:` waits until the lock is free and takes it.
_throttle_musicbrainz_requests_acquire(t) ==
    /\ th[t].op = "_throttle_musicbrainz_requests"
    /\ th[t].pc = "acquire"
    /\ _MB_THROTTLE_LOCK = 0
    /\ _MB_THROTTLE_LOCK' = t
    /\ th' = [th EXCEPT ![t].pc = "check"]
    /\ UNCHANGED <<clock, ticks, started, MUSICBRAINZ_USER_AGENT, spotify_to_isrc,
                   isrc_to_mbid, track_features, tokens, workload, monotonic,
                   _LAST_MUSICBRAINZ_REQUEST_MONO>>

\* Lines 123-126: read the clock, compare with the last request; too early a
\* caller goes to sleep for the rest of the interval.
_throttle_musicbrainz_requests_check(t) ==
    LET interval == MB_MIN_INTERVAL_SECONDS
        now == monotonic
        elapsed == now - _LAST_MUSICBRAINZ_REQUEST_MONO
    IN  /\ th[t].op = "_throttle_musicbrainz_requests"
        /\ th[t].pc = "check"
        /\ th' = [th EXCEPT ![t] =
                    IF elapsed < interval
                    THEN [@ EXCEPT !.pc = "sleep", !.now = now, !.delay = interval - elapsed]
                    ELSE [@ EXCEPT !.pc = "update", !.now = now]]
        /\ UNCHANGED <<clock, ticks, started, MUSICBRAINZ_USER_AGENT, spotify_to_isrc,
                       isrc_to_mbid, track_features, tokens, workload, gate>>

\* A sleep after which the caller returns at once: the with-block is not
\* left, the lock stays taken.
SleepLeavingLocked(t) ==
    /\ th[t].op = "_throttle_musicbrainz_requests"
    /\ th[t].pc = "sleep"
    /\ monotonic >= th[t].now + th[t].delay
    /\ _LAST_MUSICBRAINZ_REQUEST_MONO' = monotonic
    /\ th' = [th EXCEPT ![t] = Finished(@, "passed", None)]
    /\ UNCHANGED <<clock, ticks, started, MUSICBRAINZ_USER_AGENT, spotify_to_isrc,
                   isrc_to_mbid, track_features, tokens, workload, monotonic,
                   _MB_THROTTLE_LOCK>>

\* Lines 126-127: time.sleep returns once at least delay has passed, and the
\* clock is read again.
_throttle_musicbrainz_requests_sleep(t) ==
    /\ th[t].op = "_throttle_musicbrainz_requests"
    /\ th[t].pc = "sleep"
    /\ monotonic >= th[t].now + th[t].delay
    /\ th' = [th EXCEPT ![t] = [@ EXCEPT !.pc = "update", !.now = monotonic]]
    /\ UNCHANGED <<clock, ticks, started, MUSICBRAINZ_USER_AGENT, spotify_to_isrc,
                   isrc_to_mbid, track_features, tokens, workload, gate>>

\* An update that does not leave the with-block: the lock stays taken.
UpdateKeepingLock(t) ==
    /\ th[t].op = "_throttle_musicbrainz_requests"
    /\ th[t].pc = "update"
    /\ _LAST_MUSICBRAINZ_REQUEST_MONO' = th[t].now
    /\ th' = [th EXCEPT ![t] = Finished(@, "passed", None)]
    /\ UNCHANGED <<clock, ticks, started, MUSICBRAINZ_USER_AGENT, spotify_to_isrc,
                   isrc_to_mbid, track_features, tokens, workload, monotonic,
                   _MB_THROTTLE_LOCK>>

\* Lines 128-129: record the timestamp and leave the with-block, which
\* releases the lock.
_throttle_musicbrainz_requests_update(t) ==
    /\ th[t].op = "_throttle_musicbrainz_requests"
    /\ th[t].pc = "update"
    /\ _LAST_MUSICBRAINZ_REQUEST_MONO' = th[t].now
    /\ _MB_THROTTLE_LOCK' = 0
    /\ th' = [th EXCEPT ![t] = Finished(@, "passed", None)]
    /\ UNCHANGED <<clock, ticks, started, MUSICBRAINZ_USER_AGENT, spotify_to_isrc,
                   isrc_to_mbid, track_features, tokens, workload, monotonic>>

(***************************************************************************)
(* _musicbrainz_request_json, step by step                                 *)
(***************************************************************************)
\* Line 133: the request begins with the call of the gate (lines 116-121).
_musicbrainz_request_json_call(t) ==
    LET interval == IF MB_MIN_INTERVAL_SECONDS > 0 THEN MB_MIN_INTERVAL_SECONDS ELSE 0
        frame == [IdleFrame EXCEPT !.op = "_throttle_musicbrainz_requests"]
    IN  /\ workload = "request"
        /\ \/ th[t].pc = "idle"
           \/ th[t].pc = "done" /\ th[t].op = "_musicbrainz_request_json"
        /\ started < MaxRequests
        /\ started' = started + 1
        /\ th' = [th EXCEPT ![t] = IF interval <= 0 THEN Finished(frame, "open", None)
                                   ELSE [frame EXCEPT !.pc = "acquire"]]
        /\ UNCHANGED <<clock, ticks, MUSICBRAINZ_USER_AGENT, spotify_to_isrc, isrc_to_mbid,
                       track_features, tokens, workload, gate>>

\* Lines 134-145: the gate has returned; the Request is built, which raises
\* without a user agent, and urlopen sends it.  The frame keeps in now the
\* instant at which urlopen starts.
_musicbrainz_request_json_urlopen(t) ==
    LET frame == [IdleFrame EXCEPT !.op = "_musicbrainz_request_json"]
    IN  /\ workload = "request"
        /\ th[t].op = "_throttle_musicbrainz_requests"
        /\ th[t].pc = "done"
        /\ th' = [th EXCEPT ![t] =
                    IF MbReachesNetwork(MUSICBRAINZ_USER_AGENT)
                    THEN [frame EXCEPT !.pc = "urlopen", !.netcalls = 1, !.now = monotonic]
                    ELSE Ended(frame, "raised", ConfigError)]
        /\ UNCHANGED <<clock, ticks, started, MUSICBRAINZ_USER_AGENT, spotify_to_isrc,
                       isrc_to_mbid, track_features, tokens, workload, gate>>

\* Lines 145-162: the network's answer arrives, or the timeout expires.
_musicbrainz_request_json_response(t, net) ==
    /\ th[t].op = "_musicbrainz_request_json"
    /\ th[t].pc = "urlopen"
    /\ th' = [th EXCEPT ![t] =
                Ended(@, "answered", _musicbrainz_request_json(MUSICBRAINZ_USER_AGENT, net))]
    /\ UNCHANGED <<clock, ticks, started, MUSICBRAINZ_USER_AGENT, spotify_to_isrc,
                   isrc_to_mbid, track_features, tokens, workload, gate>>

\* time.monotonic() moves on by a tenth of a second or by the interval.
MonotonicSteps == {1, MB_MIN_INTERVAL_SECONDS}

Elapse(d) ==
    /\ monotonic < MaxMonotonic
    /\ monotonic' = monotonic + d
    /\ UNCHANGED <<clock, ticks, started, MUSICBRAINZ_USER_AGENT, spotify_to_isrc,
                   isrc_to_mbid, track_features, tokens, workload, th,
                   _MB_THROTTLE_LOCK, _LAST_MUSICBRAINZ_REQUEST_MONO>>

(***************************************************************************)
(* Time.                                                                   *)
(***************************************************************************)
ClockSteps == {ERROR_BACKOFF_SECONDS, NEGATIVE_TTL_SECONDS, MAPPING_TTL_SECONDS + 1}

Tick(d) ==
    /\ ticks < MaxTicks
    /\ clock' = clock + d
    /\ ticks' = ticks + 1
    /\ UNCHANGED <<gate, started, MUSICBRAINZ_USER_AGENT, spotify_to_isrc, isrc_to_mbid,
                   track_features, tokens, th, workload>>

(***************************************************************************)
(* Specifications.                                                         *)
(***************************************************************************)
FullTokenSet ==
    JDict([f \in {"access_token", "refresh_token"} |->
              IF f = "access_token" THEN JStr(<<"o">>) ELSE JStr(<<"p">>)])

\* The three direct stages over an empty store.
Init ==
    /\ clock = 1000
    /\ ticks = 0
    /\ started = 0
    /\ workload \in Workloads
    /\ MUSICBRAINZ_USER_AGENT \in (IF workload \in {"isrc_to_mbid", "track_features"}
                                   THEN {<<>>, <<"u">>} ELSE {<<"u">>})
    /\ spotify_to_isrc = {}
    /\ isrc_to_mbid = {}
    /\ track_features = {}
    /\ tokens = [s \in Sessions |-> FullTokenSet]
    /\ th = [t \in Threads |-> IdleFrame]
    /\ GateIdle

Next ==
    \/ \E d \in ClockSteps : Tick(d)
    \/ \E t \in Threads, id \in TrackIdInputs :
          \E lookup \in TrackLookups(Strip(id)) : get_isrc_from_spotify_track(t, id, lookup)
    \/ \E t \in Threads : get_isrc_from_spotify_track_reread(t)
    \/ \E t \in Threads : get_isrc_from_spotify_track_backoff(t)
    \/ \E t \in Threads, isrc \in IsrcInputs :
          \E lookup \in MbidLookups[MUSICBRAINZ_USER_AGENT] : mbid_from_isrc(t, isrc, lookup)
    \/ \E t \in Threads : mbid_from_isrc_reread(t)
    \/ \E t \in Threads : mbid_from_isrc_backoff(t)
    \/ \E t \in Threads, mbid \in MbidInputs :
          \E lookup \in FeaturesLookups[MUSICBRAINZ_USER_AGENT, _normalize_mbid(mbid)] :
              get_track_features(t, mbid, lookup)
    \/ \E t \in Threads : get_track_features_reread(t)
    \/ \E t \in Threads : get_track_features_backoff(t)

Spec == Init /\ [][Next]_vars

\* The session-token adapter under the boundary's request, over every stored
\* token set.
InitSession ==
    /\ clock = 1000
    /\ ticks = 0
    /\ started = 0
    /\ workload = "session"
    /\ MUSICBRAINZ_USER_AGENT = <<"u">>
    /\ spotify_to_isrc = {}
    /\ isrc_to_mbid = {}
    /\ track_features = {}
    /\ tokens \in [Sessions -> StoredTokenSets]
    /\ th = [t \in Threads |-> IdleFrame]
    /\ GateIdle

NextSession ==
    \/ \E t \in Threads, s \in Sessions : get_current_user_for_session(t, s)
    \/ \E t \in Threads, net \in ProviderResponses : _request_for_session_attempt1(t, net)
    \/ \E t \in Threads, net \in RefreshResponses : _request_for_session_refresh(t, net)
    \/ \E t \in Threads, net \in ProviderResponses : _request_for_session_attempt2(t, net)

SpecSession == InitSession /\ [][NextSession]_vars

\* What the token endpoint answers in the behaviours of two requests on one
\* session: a refusal, and two token sets with different access tokens (every
\* refresh issues a new one).
RaceRefreshResponses ==
    { HttpError(400),
      JsonBody(JDict([f \in {"access_token"} |-> JStr(<<"n">>)])),
      JsonBody(JDict([f \in {"access_token"} |-> JStr(<<"e">>)])) }

\* What the provider answers in these behaviours: a rejected token, a server
\* error, a profile.
RaceProviderResponses ==
    {HttpError(401), HttpError(500), JsonBody(JDict([f \in {"id"} |-> JStr(<<"t">>)]))}

\* Two requests on one session that holds an access token and a refresh
\* token.
InitRefreshRace ==
    /\ clock = 1000
    /\ ticks = 0
    /\ started = 0
    /\ workload = "session"
    /\ MUSICBRAINZ_USER_AGENT = <<"u">>
    /\ spotify_to_isrc = {}
    /\ isrc_to_mbid = {}
    /\ track_features = {}
    /\ tokens = [s \in Sessions |-> FullTokenSet]
    /\ th = [t \in Threads |-> IdleFrame]
    /\ GateIdle

NextRefreshRace ==
    \/ \E t \in Threads, s \in Sessions : get_current_user_for_session(t, s)
    \/ \E t \in Threads, net \in RaceProviderResponses : _request_for_session_attempt1(t, net)
    \/ \E t \in Threads, net \in RaceRefreshResponses : _request_for_session_refresh(t, net)
    \/ \E t \in Threads, net \in RaceProviderResponses : _request_for_session_attempt2(t, net)

SpecRefreshRace == InitRefreshRace /\ [][NextRefreshRace]_vars

\* What the token endpoint answers in the behaviours of the session-scoped
\* stage: a refusal, no answer in time, a new access token, an answer without
\* a usable one.
StageRefreshResponses ==
    { HttpError(400), ReadTimeout,
      JsonBody(JDict([f \in {"access_token"} |-> JStr(<<"n">>)])),
      JsonBody(JDict([f \in {"access_token"} |-> JStr(<<>>)])) }

\* A token set without a refresh token.
AccessOnlyTokenSet == JDict([f \in {"access_token"} |-> JStr(<<"o">>)])

\* The session-scoped first stage over an empty store.
InitSessionTrack ==
    /\ clock = 1000
    /\ ticks = 0
    /\ started = 0
    /\ workload = "session_track"
    /\ MUSICBRAINZ_USER_AGENT = <<"u">>
    /\ spotify_to_isrc = {}
    /\ isrc_to_mbid = {}
    /\ track_features = {}
    /\ tokens \in [Sessions -> {FullTokenSet, AccessOnlyTokenSet}]
    /\ th = [t \in Threads |-> IdleFrame]
    /\ GateIdle

NextSessionTrack ==
    \/ \E d \in ClockSteps : Tick(d)
    \/ \E t \in Threads, s \in Sessions, id \in TrackIdInputs :
          get_isrc_from_spotify_track_for_session(t, s, id)
    \/ \E t \in Threads, net \in ProviderResponses : _request_for_session_attempt1(t, net)
    \/ \E t \in Threads, net \in StageRefreshResponses : _request_for_session_refresh(t, net)
    \/ \E t \in Threads, net \in ProviderResponses : _request_for_session_attempt2(t, net)
    \/ \E t \in Threads : get_isrc_from_spotify_track_reread(t)
    \/ \E t \in Threads : get_isrc_from_spotify_track_backoff(t)

SpecSessionTrack == InitSessionTrack /\ [][NextSessionTrack]_vars

\* The four stage functions side by side at one instant of the clock: a
\* behaviour works against one table through the direct stages or through the
\* session-scoped one.
InitStages ==
    /\ clock = 1000
    /\ ticks = 0
    /\ started = 0
    /\ workload \in Workloads \cup {"session_track"}
    /\ MUSICBRAINZ_USER_AGENT \in (IF workload \in {"isrc_to_mbid", "track_features"}
                                   THEN {<<>>, <<"u">>} ELSE {<<"u">>})
    /\ spotify_to_isrc = {}
    /\ isrc_to_mbid = {}
    /\ track_features = {}
    /\ tokens \in [Sessions -> (IF workload = "session_track"
                                THEN {FullTokenSet, AccessOnlyTokenSet}
                                ELSE {FullTokenSet})]
    /\ th = [t \in Threads |-> IdleFrame]
    /\ GateIdle

NextStages ==
    \/ \E t \in Threads, id \in TrackIdInputs :
          \E lookup \in TrackLookups(Strip(id)) : get_isrc_from_spotify_track(t, id, lookup)
    \/ \E t \in Threads : get_isrc_from_spotify_track_reread(t)
    \/ \E t \in Threads : get_isrc_from_spotify_track_backoff(t)
    \/ \E t \in Threads, isrc \in IsrcInputs :
          \E lookup \in MbidLookups[MUSICBRAINZ_USER_AGENT] : mbid_from_isrc(t, isrc, lookup)
    \/ \E t \in Threads : mbid_from_isrc_reread(t)
    \/ \E t \in Threads : mbid_from_isrc_backoff(t)
    \/ \E t \in Threads, mbid \in MbidInputs :
          \E lookup \in FeaturesLookups[MUSICBRAINZ_USER_AGENT, _normalize_mbid(mbid)] :
              get_track_features(t, mbid, lookup)
    \/ \E t \in Threads : get_track_features_reread(t)
    \/ \E t \in Threads : get_track_features_backoff(t)
    \/ \E t \in Threads, s \in Sessions, id \in TrackIdInputs :
          get_isrc_from_spotify_track_for_session(t, s, id)
    \/ \E t \in Threads, net \in ProviderResponses : _request_for_session_attempt1(t, net)
    \/ \E t \in Threads, net \in StageRefreshResponses : _request_for_session_refresh(t, net)
    \/ \E t \in Threads, net \in ProviderResponses : _request_for_session_attempt2(t, net)

SpecStages == InitStages /\ [][NextStages]_vars

\* The steps of a call that has started: each follows the one before in the
\* same Python thread, and nothing in them waits for another thread (urlopen
\* carries timeout=15, lines 136 and 81/124 of the two clients; no lock is
\* taken in these steps).
Continue(t) ==
    \/ get_isrc_from_spotify_track_reread(t)
    \/ get_isrc_from_spotify_track_backoff(t)
    \/ mbid_from_isrc_reread(t)
    \/ mbid_from_isrc_backoff(t)
    \/ get_track_features_reread(t)
    \/ get_track_features_backoff(t)
    \/ \E net \in ProviderResponses : _request_for_session_attempt1(t, net)
    \/ \E net \in StageRefreshResponses : _request_for_session_refresh(t, net)
    \/ \E net \in ProviderResponses : _request_for_session_attempt2(t, net)

\* The same behaviours where a thread that can go on with its call does.
SpecStagesFair == SpecStages /\ \A t \in Threads : WF_vars(Continue(t))

\* Concurrent callers of the request gate; the process may have run for a
\* while before the first of them.
InitThrottle ==
    /\ clock = 1000
    /\ ticks = 0
    /\ started = 0
    /\ workload = "throttle"
    /\ MUSICBRAINZ_USER_AGENT = <<"u">>
    /\ spotify_to_isrc = {}
    /\ isrc_to_mbid = {}
    /\ track_features = {}
    /\ tokens = [s \in Sessions |-> FullTokenSet]
    /\ th = [t \in Threads |-> IdleFrame]
    /\ monotonic \in {0, MB_MIN_INTERVAL_SECONDS + 1}
    /\ _MB_THROTTLE_LOCK = 0
    /\ _LAST_MUSICBRAINZ_REQUEST_MONO = 0

NextThrottle ==
    \/ \E d \in MonotonicSteps : Elapse(d)
    \/ \E t \in Threads : _throttle_musicbrainz_requests(t)
    \/ \E t \in Threads : _throttle_musicbrainz_requests_acquire(t)
    \/ \E t \in Threads : _throttle_musicbrainz_requests_check(t)
    \/ \E t \in Threads : _throttle_musicbrainz_requests_sleep(t)
    \/ \E t \in Threads : _throttle_musicbrainz_requests_update(t)

SpecThrottle == InitThrottle /\ [][NextThrottle]_vars

\* Line 126: time passes while a caller sleeps.
ElapseAsleep(d) ==
    /\ \E t \in Threads : th[t].pc = "sleep" /\ monotonic < th[t].now + th[t].delay
    /\ monotonic' = monotonic + d
    /\ UNCHANGED <<clock, ticks, started, MUSICBRAINZ_USER_AGENT, spotify_to_isrc,
                   isrc_to_mbid, track_features, tokens, workload, th,
                   _MB_THROTTLE_LOCK, _LAST_MUSICBRAINZ_REQUEST_MONO>>

\* The steps of the holder of the lock inside the with-block (lines 123-128).
InsideLock(t) ==
    \/ _throttle_musicbrainz_requests_check(t)
    \/ _throttle_musicbrainz_requests_sleep(t)
    \/ _throttle_musicbrainz_requests_update(t)

NextThrottleFair ==
    \/ NextThrottle
    \/ \E d \in MonotonicSteps : ElapseAsleep(d)

\* The callers of the gate under fair scheduling: time passes while a caller
\* sleeps, the thread that holds the lock runs, and a caller that finds the
\* lock free again and again gets it (fair lock acquisition).
SpecThrottleFair ==
    /\ InitThrottle
    /\ [][NextThrottleFair]_vars
    /\ WF_vars(\E d \in MonotonicSteps : ElapseAsleep(d))
    /\ \A t \in Threads : WF_vars(InsideLock(t))
    /\ \A t \in Threads : SF_vars(_throttle_musicbrainz_requests_acquire(t))

\* What the network gives to a request in the behaviours that follow it: a
\* server error, no answer in time, an object.
RequestAnswers == {HttpError(503), ReadTimeout, JsonBody(EmptyDict)}

\* Concurrent callers of _musicbrainz_request_json.
InitRequest ==
    /\ clock = 1000
    /\ ticks = 0
    /\ started = 0
    /\ workload = "request"
    /\ MUSICBRAINZ_USER_AGENT \in {<<>>, <<"u">>}
    /\ spotify_to_isrc = {}
    /\ isrc_to_mbid = {}
    /\ track_features = {}
    /\ tokens = [s \in Sessions |-> FullTokenSet]
    /\ th = [t \in Threads |-> IdleFrame]
    /\ monotonic \in {0, MB_MIN_INTERVAL_SECONDS + 1}
    /\ _MB_THROTTLE_LOCK = 0
    /\ _LAST_MUSICBRAINZ_REQUEST_MONO = 0

NextRequest ==
    \/ \E d \in MonotonicSteps : Elapse(d)
    \/ \E t \in Threads : _musicbrainz_request_json_call(t)
    \/ \E t \in Threads : _throttle_musicbrainz_requests_acquire(t)
    \/ \E t \in Threads : _throttle_musicbrainz_requests_check(t)
    \/ \E t \in Threads : _throttle_musicbrainz_requests_sleep(t)
    \/ \E t \in Threads : _throttle_musicbrainz_requests_update(t)
    \/ \E t \in Threads : _musicbrainz_request_json_urlopen(t)
    \/ \E t \in Threads, net \in RequestAnswers : _musicbrainz_request_json_response(t, net)

SpecRequest == InitRequest /\ [][NextRequest]_vars

\* Items of a list of recordings: equal scores with different ids, a larger
\* id with a lower score, an id that is a number and the same id as a string,
\* and an item that is no object.
PickItems ==
    { Scored(JStr(<<"a">>), JInt(100)),
      Scored(JStr(<<"b">>), JInt(100)),
      Scored(JStr(<<"b">>), JInt(80)),
      Scored(JInt(8), JInt(100)),
      Scored(JStr(<<"8">>), JInt(100)),
      JStr(<<"x">>) }

PickLists == UNION {[1..n -> PickItems] : n \in 0..MaxLen}

\* The orderings of a list.
Orderings(list) ==
    LET n == Len(list)
        perms == {p \in [1..n -> 1..n] : \A i, j \in 1..n : p[i] = p[j] => i = j}
    IN  {[i \in 1..n |-> list[p[i]]] : p \in perms}

\* _pick_best_recording on its own: the first thread holds a list, the others
\* an ordering of it.
InitPick ==
    /\ clock = 1000
    /\ ticks = 0
    /\ started = 0
    /\ workload = "pick"
    /\ MUSICBRAINZ_USER_AGENT = <<"u">>
    /\ spotify_to_isrc = {}
    /\ isrc_to_mbid = {}
    /\ track_features = {}
    /\ tokens = [s \in Sessions |-> FullTokenSet]
    /\ \E list \in PickLists : \E ordering \in Orderings(list) :
          th = [t \in Threads |->
                  [IdleFrame EXCEPT !.op = "_pick_best_recording", !.pc = "call",
                                    !.arg = IF t = 1 THEN list ELSE ordering]]
    /\ GateIdle

\* Lines 404-420 with expected_mbid=None.
_pick_best_recording_call(t) ==
    /\ th[t].op = "_pick_best_recording"
    /\ th[t].pc = "call"
    /\ th' = [th EXCEPT ![t] =
                Finished(@, "picked", _pick_best_recording(th[t].arg, None))]
    /\ UNCHANGED <<clock, ticks, started, MUSICBRAINZ_USER_AGENT, spotify_to_isrc,
                   isrc_to_mbid, track_features, tokens, workload, gate>>

NextPick == \E t \in Threads : _pick_best_recording_call(t)

SpecPick == InitPick /\ [][NextPick]_vars

\* Items of a tags or genres list: a padded name with a count, a count that
\* is a string of digits, a count that is no number, no count, a count beyond
\* the range of a double, a blank name, a name that is no string, and an item
\* that is no object.
ExtractItems ==
    { JDict([name |-> JStr(<<"a", " ">>), count |-> JInt(8)]),
      JDict([name |-> JStr(<<"b">>), count |-> JStr(<<"8">>)]),
      JDict([name |-> JStr(<<" ", "b">>), count |-> JStr(<<"x">>)]),
      JDict([name |-> JStr(<<"a">>)]),
      JDict([name |-> JStr(<<"a">>), count |-> JInfinity]),
      JDict([name |-> JStr(<<" ">>), count |-> JInt(1)]),
      JDict([name |-> JInt(8), count |-> JInt(1)]),
      JStr(<<"x">>) }

ExtractLists == UNION {[1..n -> ExtractItems] : n \in 0..MaxTags}

\* The 'genres' field: absent, no list, or a list of at most one item.
ExtractGenres ==
    {JMissing, JStr(<<"x">>)} \cup {JList(list) : list \in UNION {[1..n -> ExtractItems] : n \in 0..1}}

\* Items of an artist-credit list: credited names that differ from the
\* artist's name in case only, a padded name, a second artist, and an item
\* that is no object.
CreditItems ==
    { JDict([name |-> JStr(<<"A">>), artist |-> JDict([name |-> JStr(<<"a">>)])]),
      JDict([name |-> JStr(<<"a", " ">>)]),
      JDict([name |-> JStr(<<"B">>)]),
      JDict([artist |-> JDict([name |-> JStr(<<"b">>)])]),
      JStr(<<"x">>) }

CreditLists == UNION {[1..n -> CreditItems] : n \in 0..2}

ExtractRecordings ==
    { JDict([id |-> JStr(<<"m">>), tags |-> JList(tags), genres |-> genres]
            @@ ("artist-credit" :> JList(credit))) :
        tags \in ExtractLists, genres \in ExtractGenres, credit \in CreditLists }

\* _extract_track_features on its own: every thread holds a recording.
InitExtract ==
    /\ clock = 1000
    /\ ticks = 0
    /\ started = 0
    /\ workload = "extract"
    /\ MUSICBRAINZ_USER_AGENT = <<"u">>
    /\ spotify_to_isrc = {}
    /\ isrc_to_mbid = {}
    /\ track_features = {}
    /\ tokens = [s \in Sessions |-> FullTokenSet]
    /\ \E recording \in ExtractRecordings :
          th = [t \in Threads |->
                  [IdleFrame EXCEPT !.op = "_extract_track_features", !.pc = "call",
                                    !.arg = recording]]
    /\ GateIdle

\* Lines 462-549: the pair is returned, or the OverflowError of _count_value
\* leaves the function.
_extract_track_features_call(t) ==
    /\ th[t].op = "_extract_track_features"
    /\ th[t].pc = "call"
    /\ th' = [th EXCEPT ![t] =
                IF _extract_track_features_raises(th[t].arg)
                THEN Ended(@, "raised", OverflowError)
                ELSE Finished(@, "extracted", _extract_track_features(th[t].arg))]
    /\ UNCHANGED <<clock, ticks, started, MUSICBRAINZ_USER_AGENT, spotify_to_isrc,
                   isrc_to_mbid, track_features, tokens, workload, gate>>

NextExtract == \E t \in Threads : _extract_track_features_call(t)

SpecExtract == InitExtract /\ [][NextExtract]_vars

\* Answers to the direct lookup in the behaviours that keep them: not found,
\* a server error, no connection, no answer in time, a recording, a payload
\* without an identity.
DirectAnswers ==
    {HttpError(404), HttpError(503), UrlError, ReadTimeout, JsonBody(FullRecording),
     JsonBody(JDict([f \in {"title"} |-> JStr(<<"T">>)]))}

\* Answers to the search in those behaviours: a server error, the recording,
\* an empty list, no list.
SearchAnswers ==
    {HttpError(503),
     JsonBody(Recordings(JList(<< Scored(JStr(<<"m">>), JInt(100)) >>))),
     JsonBody(Recordings(JList(<<>>))),
     JsonBody(Recordings(JNull)),
     JsonBody(EmptyDict)}

\* get_track_features with the network's answers in sight.
InitRecording ==
    /\ clock = 1000
    /\ ticks = 0
    /\ started = 0
    /\ workload = "recording"
    /\ MUSICBRAINZ_USER_AGENT = <<"u">>
    /\ spotify_to_isrc = {}
    /\ isrc_to_mbid = {}
    /\ track_features = {}
    /\ tokens = [s \in Sessions |-> FullTokenSet]
    /\ th = [t \in Threads |-> IdleFrame]
    /\ GateIdle

NextRecording ==
    \/ \E t \in Threads, mbid \in MbidInputs :
          \E net1 \in DirectAnswers, net2 \in SearchAnswers :
              get_track_features_answered(t, mbid, net1, net2)
    \/ \E t \in Threads : get_track_features_reread(t)
    \/ \E t \in Threads : get_track_features_backoff(t)

SpecRecording == InitRecording /\ [][NextRecording]_vars

\* Answers to the track request in the behaviours that keep them: a server
\* error, a body that is no JSON, JSON that is no object, an object whose
\* external_ids is no object, an object without a code, an object with one.
TrackAnswers ==
    {HttpError(500), InvalidJson, JsonBody(JList(<<>>)),
     JsonBody(ExternalIds(JStr(<<"x">>))),
     JsonBody(ExternalIds(EmptyDict)),
     JsonBody(ExternalIds(JDict([f \in {"isrc"} |-> JStr(<<"b">>)])))}

\* Answers to the ISRC search in those behaviours: a server error, a body
\* that is no JSON, JSON that is no object, an object whose recordings is no
\* list, an empty list, a list with a recording.
IsrcAnswers ==
    {HttpError(503), InvalidJson, JsonBody(JList(<<>>)),
     JsonBody(Recordings(JStr(<<"x">>))),
     JsonBody(Recordings(JList(<<>>))),
     JsonBody(Recordings(JList(<< Scored(JStr(<<"x", "8">>), JInt(100)) >>)))}

\* Answers to the direct lookup in the behaviours that ask for two
\* identities: not found, the recording "m", a payload without an identity.
IdentityDirectAnswers ==
    {HttpError(404), JsonBody(FullRecording), JsonBody(JDict([f \in {"title"} |-> JStr(<<"T">>)]))}

\* Answers to the search in those behaviours: a server error, the recording
\* "m" alone, "n" with a lower score than "m", and a list without an object.
IdentitySearchAnswers ==
    {HttpError(503),
     JsonBody(Recordings(JList(<< Scored(JStr(<<"m">>), JInt(100)) >>))),
     JsonBody(Recordings(JList(<< Scored(JStr(<<"n">>), JInt(80)),
                                  Scored(JStr(<<"m">>), JInt(100)) >>))),
     JsonBody(Recordings(JList(<< JStr(<<"x">>) >>)))}

\* get_track_features for the identities "m" and "n", the answers in sight.
NextIdentity ==
    \/ \E t \in Threads, mbid \in {<<>>, <<"m">>, <<"n">>} :
          \E net1 \in IdentityDirectAnswers, net2 \in IdentitySearchAnswers :
              get_track_features_answered(t, mbid, net1, net2)
    \/ \E t \in Threads : get_track_features_reread(t)
    \/ \E t \in Threads : get_track_features_backoff(t)

SpecIdentity == InitRecording /\ [][NextIdentity]_vars

\* Answers to the direct recording lookup in those behaviours, the search
\* answering with a server error: a server error, the recording.
RecordingAnswers == {HttpError(503), JsonBody(FullRecording)}

\* Keys as callers pass them in those behaviours: none, and two different ones.
TwoKeys == {<<>>, <<"m">>, <<"n">>}

\* The three direct stages with the network's answers in sight, over two keys.
InitAnswers ==
    /\ clock = 1000
    /\ ticks = 0
    /\ started = 0
    /\ workload \in {"track_answers", "isrc_answers", "recording"}
    /\ MUSICBRAINZ_USER_AGENT = <<"u">>
    /\ spotify_to_isrc = {}
    /\ isrc_to_mbid = {}
    /\ track_features = {}
    /\ tokens = [s \in Sessions |-> FullTokenSet]
    /\ th = [t \in Threads |-> IdleFrame]
    /\ GateIdle

NextAnswers ==
    \/ \E t \in Threads, id \in TwoKeys, net \in TrackAnswers :
          get_isrc_from_spotify_track_answered(t, id, net)
    \/ \E t \in Threads : get_isrc_from_spotify_track_reread(t)
    \/ \E t \in Threads : get_isrc_from_spotify_track_backoff(t)
    \/ \E t \in Threads, isrc \in TwoKeys, net \in IsrcAnswers :
          mbid_from_isrc_answered(t, isrc, net)
    \/ \E t \in Threads : mbid_from_isrc_reread(t)
    \/ \E t \in Threads : mbid_from_isrc_backoff(t)
    \/ \E t \in Threads, mbid \in TwoKeys, net1 \in RecordingAnswers :
          get_track_features_answered(t, mbid, net1, HttpError(503))
    \/ \E t \in Threads : get_track_features_reread(t)
    \/ \E t \in Threads : get_track_features_backoff(t)

SpecAnswers == InitAnswers /\ [][NextAnswers]_vars

(***************************************************************************)
(* The stages side by side.                                                *)
(***************************************************************************)
StageOps ==
    {"get_isrc_from_spotify_track", "get_isrc_from_spotify_track_for_session",
     "mbid_from_isrc", "get_track_features"}

\* The table a stage reads and writes.
StageTable(op) ==
    CASE op = "mbid_from_isrc" -> isrc_to_mbid
      [] op = "get_track_features" -> track_features
      [] OTHER -> spotify_to_isrc

\* The same table after the step.
StageTableAfter(op) ==
    CASE op = "mbid_from_isrc" -> isrc_to_mbid'
      [] op = "get_track_features" -> track_features'
      [] OTHER -> spotify_to_isrc'

\* What a stage returns for a stored value: the features table stores text
\* that is decoded (lines 609 and 627), the mappings store the value itself.
Served(op, value) ==
    IF op = "get_track_features" THEN _decode_track_features_row(value) ELSE value

(***************************************************************************)
(* The stage functions, connection by connection.                          *)
(***************************************************************************)
\* The workload a stage function belongs to.
StageWorkload(op) ==
    CASE op = "get_isrc_from_spotify_track" -> "spotify_to_isrc"
      [] op = "get_isrc_from_spotify_track_for_session" -> "session_track"
      [] op = "mbid_from_isrc" -> "isrc_to_mbid"
      [] op = "get_track_features" -> "track_features"

\* The key a stage function makes of its argument (lines 323, 356, 424, 601).
StageKey(op, raw) ==
    CASE op = "mbid_from_isrc" -> _normalize_isrc(raw)
      [] op = "get_track_features" -> _normalize_mbid(raw)
      [] OTHER -> Strip(raw)

\* The arguments of a stage function.
StageInputs(op) ==
    CASE op = "mbid_from_isrc" -> IsrcInputs
      [] op = "get_track_features" -> MbidInputs
      [] OTHER -> TrackIdInputs

\* Lines 322-327, 355-360, 423-428, 600-605: normalize, reject an empty key,
\* read the clock and enter the first with-block: _db_connection connects
\* (lines 62-65).
StageConnect(t, op, session_id, raw) ==
    LET key == StageKey(op, raw)
        frame == [IdleFrame EXCEPT !.op = op, !.key = key, !.session = session_id,
                                   !.arg = IF op = "mbid_from_isrc" THEN raw ELSE <<>>]
    IN  /\ CanStart(t, StageWorkload(op))
        /\ session_id = (IF op = "get_isrc_from_spotify_track_for_session" THEN "s1" ELSE "")
        /\ started' = started + 1
        /\ th' = [th EXCEPT ![t] =
                    IF key = <<>> THEN Finished(frame, "rejected", None)
                    ELSE [frame EXCEPT !.pc = "read", !.now = clock, !.conn = 1]]
        /\ UNCHANGED <<gate, clock, ticks, MUSICBRAINZ_USER_AGENT, spotify_to_isrc,
                       isrc_to_mbid, track_features, tokens, workload>>

\* A first with-block that is not left before the lookup.
ReadKeepingConnection(t) ==
    LET f == th[t]
        cached_row == FetchOne(StageTable(f.op), f.key)
    IN  /\ f.pc = "read"
        /\ th' = [th EXCEPT ![t] =
                    IF _is_cache_usable(cached_row, f.now)
                    THEN Finished(f, "hit", Served(f.op, cached_row.value))
                    ELSE [f EXCEPT !.pc = "lookup", !.now = 0]]
        /\ UNCHANGED <<gate, clock, ticks, started, MUSICBRAINZ_USER_AGENT, spotify_to_isrc,
                       isrc_to_mbid, track_features, tokens, workload>>

\* Lines 328-330, 361-363, 429-431, 606-609: the SELECT; a usable row is
\* returned; on either way out of the with-block the connection is committed
\* and closed (lines 66-69).
StageRead(t) ==
    LET f == th[t]
        cached_row == FetchOne(StageTable(f.op), f.key)
    IN  /\ f.pc = "read"
        /\ th' = [th EXCEPT ![t] =
                    IF _is_cache_usable(cached_row, f.now)
                    THEN Finished(f, "hit", Served(f.op, cached_row.value))
                    ELSE [f EXCEPT !.pc = "lookup", !.now = 0, !.conn = 0]]
        /\ UNCHANGED <<gate, clock, ticks, started, MUSICBRAINZ_USER_AGENT, spotify_to_isrc,
                       isrc_to_mbid, track_features, tokens, workload>>

\* The lookups of a direct stage function for its key.
StageLookups(op, key) ==
    CASE op = "get_isrc_from_spotify_track" -> TrackLookups(key)
      [] op = "mbid_from_isrc" -> MbidLookups[MUSICBRAINZ_USER_AGENT]
      [] op = "get_track_features" -> FeaturesLookups[MUSICBRAINZ_USER_AGENT, key]

\* Lines 332-339, 434-446, 611-619: the try-block of a direct stage, from the
\* request (with the wait at the gate) to its result.
StageLookup(t, lookup) ==
    /\ th[t].pc = "lookup"
    /\ th[t].op # "get_isrc_from_spotify_track_for_session"
    /\ th' = [th EXCEPT ![t] = AfterLookup(@, lookup)]
    /\ UNCHANGED <<gate, clock, ticks, started, MUSICBRAINZ_USER_AGENT, spotify_to_isrc,
                   isrc_to_mbid, track_features, tokens, workload>>

\* Lines 365-369: the try-block of the session-scoped stage enters
\* _request_for_session.
StageRequest(t) ==
    /\ th[t].pc = "lookup"
    /\ th[t].op = "get_isrc_from_spotify_track_for_session"
    /\ th' = [th EXCEPT ![t] = RequestStarted(@, tokens)]
    /\ tokens' = StoreAfterStart(th[t], tokens)
    /\ UNCHANGED <<gate, clock, ticks, started, MUSICBRAINZ_USER_AGENT, spotify_to_isrc,
                   isrc_to_mbid, track_features, workload>>

NextConnection ==
    \/ \E t \in Threads, op \in StageOps, s \in Sessions \cup {""} :
          \E raw \in StageInputs(op) : StageConnect(t, op, s, raw)
    \/ \E t \in Threads : StageRead(t)
    \/ \E t \in Threads :
          \E lookup \in (IF th[t].pc = "lookup"
                             /\ th[t].op # "get_isrc_from_spotify_track_for_session"
                          THEN StageLookups(th[t].op, th[t].key) ELSE {}) :
              StageLookup(t, lookup)
    \/ \E t \in Threads : StageRequest(t)
    \/ \E t \in Threads, net \in ProviderResponses : _request_for_session_attempt1(t, net)
    \/ \E t \in Threads, net \in StageRefreshResponses : _request_for_session_refresh(t, net)
    \/ \E t \in Threads, net \in ProviderResponses : _request_for_session_attempt2(t, net)
    \/ \E t \in Threads : get_isrc_from_spotify_track_reread(t)
    \/ \E t \in Threads : get_isrc_from_spotify_track_backoff(t)
    \/ \E t \in Threads : mbid_from_isrc_reread(t)
    \/ \E t \in Threads : mbid_from_isrc_backoff(t)
    \/ \E t \in Threads : get_track_features_reread(t)
    \/ \E t \in Threads : get_track_features_backoff(t)

\* The four stage functions with the places where a connection is open.
SpecConnection == InitStages /\ [][NextConnection]_vars

\* Thread t takes a step of its call.
Steps(t) == th'[t] # th[t]

(***************************************************************************)
(* Properties.                                                             *)
(***************************************************************************)
\* C1: stale-serve-on-failure.  In every stage, when the lookup has failed and
\* the re-read finds a row for the key, the call goes on to the UPDATE with
\* the value and the clock of the re-read; the UPDATE leaves the row with
\* backoff_until = now + ERROR_BACKOFF_SECONDS, strictly greater than now,
\* its value and expiry as they were, and the call returns the re-read value.
StaleServeOnFailure ==
    [][\A t \in Threads :
          LET f == th[t]
              g == th'[t]
              row == FetchOne(StageTable(f.op), f.key)
              row_after == FetchOne(StageTableAfter(f.op), f.key)
          IN  /\ (f.pc = "reread" /\ Steps(t) /\ f.fetch_failed /\ row.present) =>
                    /\ g.pc = "backoff"
                    /\ g.now = clock
                    /\ g.cached_value = row.value
                    /\ StageTableAfter(f.op) = StageTable(f.op)
              /\ (f.pc = "backoff" /\ Steps(t)) =>
                    /\ g.pc = "done"
                    /\ g.ret = Return(Served(f.op, f.cached_value))
                    /\ row.present /\ row_after.present
                    /\ row_after.backoff_until = f.now + ERROR_BACKOFF_SECONDS
                    /\ row_after.backoff_until > f.now
                    /\ row_after.value = row.value
                    /\ row_after.expires_at = row.expires_at
                    /\ row_after.updated_at = row.updated_at]_vars

\* C1 happens: a features call has returned stored features after a failed
\* lookup, and the row's backoff reaches beyond its expiry.
StaleFeaturesServed ==
    \E t \in Threads :
        /\ th[t].op = "get_track_features"
        /\ th[t].outcome = "stale"
        /\ th[t].ret # Return(None)
        /\ LET row == FetchOne(track_features, th[t].key)
           IN  row.present /\ row.backoff_until > row.expires_at

\* C2: cache usability.  A call with a non-empty normalized key returns the
\* stored value without attempting the lookup and without a network call,
\* and writes nothing, if and only if a row exists for the key and the clock
\* is <= expires_at or <= backoff_until; in every other case it attempts the
\* external lookup (and goes on to the re-read, unless the lookup raised).
CacheUsability ==
    [][\A t \in Threads :
          LET f == th[t]
              g == th'[t]
              row == FetchOne(StageTable(g.op), g.key)
              usable == row.present /\ (clock <= row.expires_at \/ clock <= row.backoff_until)
          IN  (f.pc \in {"idle", "done"} /\ Steps(t) /\ g.key # <<>>) =>
                  IF usable
                  THEN /\ g.pc = "done"
                       /\ g.ret = Return(Served(g.op, row.value))
                       /\ g.lookups = 0
                       /\ g.netcalls = 0
                       /\ StageTableAfter(g.op) = StageTable(g.op)
                  ELSE /\ g.lookups = 1
                       /\ g.pc = "reread" \/ g.outcome = "raised"]_vars

\* C2 happens: a call was served from a row that has expired and is within
\* its backoff window.
ServedWithinBackoff ==
    \E t \in Threads :
        /\ th[t].outcome = "hit"
        /\ LET row == FetchOne(StageTable(th[t].op), th[t].key)
           IN  row.present /\ clock > row.expires_at /\ clock <= row.backoff_until

\* C3: negative caching.  When the provider lookup of the session-scoped
\* stage succeeds and the payload holds no industry code, the call stores the
\* row (key, null, updated_at = now, expires_at = now + NEGATIVE_TTL_SECONDS,
\* backoff_until = 0) and returns None; and a resolution that reads a
\* null-valued row at a time <= its expires_at returns None without a lookup,
\* a network call or a cache write.
NegativeCaching ==
    [][\A t \in Threads :
          LET f == th[t]
              g == th'[t]
              op == "get_isrc_from_spotify_track_for_session"
              row == FetchOne(spotify_to_isrc, g.key)
              row_after == FetchOne(spotify_to_isrc', f.key)
          IN  /\ (f.op = op /\ f.pc = "reread" /\ Steps(t) /\ ~f.fetch_failed
                      /\ f.fetched = None) =>
                    /\ row_after = Row(f.key, None, clock, clock + NEGATIVE_TTL_SECONDS, 0)
                    /\ g.pc = "done"
                    /\ g.ret = Return(None)
              /\ (f.pc \in {"idle", "done"} /\ Steps(t) /\ g.op = op /\ g.key # <<>>
                      /\ row.present /\ row.value = None /\ clock <= row.expires_at) =>
                    /\ g.pc = "done"
                    /\ g.ret = Return(None)
                    /\ g.lookups = 0
                    /\ g.netcalls = 0
                    /\ UNCHANGED spotify_to_isrc]_vars

\* C3 happens: a session-scoped resolution was served None from a null row
\* on the last second of its negative TTL.
NegativeRowServed ==
    \E t \in Threads :
        /\ th[t].op = "get_isrc_from_spotify_track_for_session"
        /\ th[t].outcome = "hit"
        /\ th[t].ret = Return(None)
        /\ LET row == FetchOne(spotify_to_isrc, th[t].key)
           IN  /\ row.present /\ row.value = None /\ row.backoff_until = 0
               /\ row.expires_at = row.updated_at + NEGATIVE_TTL_SECONDS
               /\ clock = row.expires_at

\* Two industry codes that differ only in letter case or surrounding whitespace.
SameCode(a, b) == Casefold(Strip(a)) = Casefold(Strip(b))

\* C4: idempotent normalization.  When a resolution of mbid_from_isrc has
\* stored its result and a second one starts with a code that differs from
\* the first only in letter case or surrounding whitespace, while the row is
\* as the first left it and has not expired, the second reads the same row:
\* it returns the same value without a lookup or a write, and the two made at
\* most one external call in total.
IdempotentNormalization ==
    [][\A t, u \in Threads :
          LET first == th[u]
              second == th'[t]
              row == FetchOne(isrc_to_mbid, first.key)
          IN  (/\ th[t].pc \in {"idle", "done"} /\ Steps(t)
               /\ second.op = "mbid_from_isrc"
               /\ first.op = "mbid_from_isrc" /\ first.outcome = "stored"
               /\ SameCode(first.arg, second.arg)
               /\ row.present /\ Return(row.value) = first.ret
               /\ clock <= row.expires_at) =>
                  /\ second.key = first.key
                  /\ second.pc = "done"
                  /\ second.ret = first.ret
                  /\ second.lookups = 0
                  /\ first.netcalls + second.netcalls <= 1
                  /\ isrc_to_mbid' = isrc_to_mbid]_vars

\* C4 happens: one code was resolved and stored, and the same code in another
\* spelling was served the identity found, from the same row.
VariantCodeServed ==
    \E t, u \in Threads :
        /\ th[u].op = "mbid_from_isrc" /\ th[u].outcome = "stored"
        /\ th[t].op = "mbid_from_isrc" /\ th[t].outcome = "hit"
        /\ th[t].arg # th[u].arg
        /\ th[t].key = th[u].key
        /\ th[t].ret = th[u].ret
        /\ th[t].ret # Return(None)
        /\ th[u].netcalls + th[t].netcalls = 1

\* C5: unknown on failure without a row.  In every stage, when the lookup has
\* failed and the re-read finds no row for the key, the call ends at once,
\* returning None (a return, not an exception), and writes nothing.
UnknownOnFailureWithoutRow ==
    [][\A t \in Threads :
          LET f == th[t]
              g == th'[t]
              row == FetchOne(StageTable(f.op), f.key)
          IN  (f.pc = "reread" /\ Steps(t) /\ f.fetch_failed /\ ~row.present) =>
                  /\ g.pc = "done"
                  /\ g.ret = Return(None)
                  /\ g.outcome = "unknown"
                  /\ StageTableAfter(f.op) = StageTable(f.op)]_vars

\* C5 happens: a resolution of an industry code has sent its request, which
\* failed, and has returned None while the table holds no row for the code.
UnknownCodeReturned ==
    \E t \in Threads :
        /\ th[t].op = "mbid_from_isrc"
        /\ th[t].outcome = "unknown"
        /\ th[t].ret = Return(None)
        /\ th[t].netcalls = 1
        /\ ~FetchOne(isrc_to_mbid, th[t].key).present

\* The keys a table holds rows for.
Keys(table) == {r.key : r \in table}

\* C6 as stated: once a resolution of a non-empty key has completed, whether
\* its lookup succeeded or failed, the stage's table holds a row for the key.
RowAfterEveryAttempt ==
    \A t \in Threads :
        (th[t].op \in StageOps /\ th[t].pc = "done" /\ th[t].key # <<>>) =>
            FetchOne(StageTable(th[t].op), th[t].key).present

\* C6, amended: a resolution that completes after a successful lookup, or
\* that was served a stored value, leaves a row for its key; one whose lookup
\* failed when there was no row creates none; and no step removes a row from
\* any table.
RowLifecycle ==
    [][/\ \A t \in Threads :
            LET f == th[t]
                g == th'[t]
                row == FetchOne(StageTable(f.op), f.key)
                row_after == FetchOne(StageTableAfter(g.op), g.key)
            IN  (Steps(t) /\ g.pc = "done" /\ g.op \in StageOps /\ g.key # <<>>) =>
                    /\ g.outcome \in {"hit", "stored", "stale"} => row_after.present
                    /\ g.outcome = "stored" => f.pc = "reread" /\ ~f.fetch_failed
                    /\ g.outcome = "unknown" =>
                          f.pc = "reread" /\ f.fetch_failed /\ ~row.present /\ ~row_after.present
       /\ Keys(spotify_to_isrc) \subseteq Keys(spotify_to_isrc')
       /\ Keys(isrc_to_mbid) \subseteq Keys(isrc_to_mbid')
       /\ Keys(track_features) \subseteq Keys(track_features')]_vars

\* C6 happens: the first resolution attempt of a track id has completed with
\* a failed lookup, and the table holds no row.
FirstAttemptLeftNoRow ==
    \E t \in Threads :
        /\ started = 1
        /\ th[t].op = "get_isrc_from_spotify_track"
        /\ th[t].pc = "done"
        /\ th[t].outcome = "unknown"
        /\ th[t].key # <<>>
        /\ spotify_to_isrc = {}

(***************************************************************************)
(* Properties of _request_for_session.                                     *)
(***************************************************************************)
\* A token a request can be made with: a string that is not empty.
UsableToken(j) == j.k = "str" /\ j.v # <<>>

\* The result is SpotifyClientError with status 401.
Is401(result) == result.kind = "error" /\ result.status_code = 401

\* C7: authorization retry.  _request_for_session calls request_fn first with
\* the access token read from the store; it goes on to the refresh exactly
\* when that call fails with 401 and the token set holds a usable refresh
\* token; after a successful refresh it calls request_fn a second and last
\* time, with the access token of the refresh response, and when that call
\* succeeds it returns its result: two calls of request_fn, one refresh.
AuthorizationRetry ==
    [][\A t \in Threads :
          LET f == th[t]
              g == th'[t]
          IN  /\ (f.pc \in {"idle", "done"} /\ Steps(t) /\ g.pc = "attempt1") =>
                    /\ g.token_data = get_tokens(tokens, g.session)
                    /\ g.attempts = <<>> /\ g.refreshes = 0
              /\ (f.pc = "attempt1" /\ Steps(t)) =>
                    /\ Len(g.attempts) = 1
                    /\ g.attempts[1].token = Get(f.token_data, "access_token").v
                    /\ g.refreshes = 0
                    /\ g.pc = "refresh" <=>
                          /\ Is401(g.attempts[1].result)
                          /\ UsableToken(Get(f.token_data, "refresh_token"))
              /\ (f.pc = "refresh" /\ Steps(t) /\ g.pc = "attempt2") =>
                    /\ g.attempts = f.attempts
                    /\ g.refreshes = 1
                    /\ UsableToken(Get(g.refreshed_tokens, "access_token"))
              /\ (f.pc = "attempt2" /\ Steps(t)) =>
                    /\ g.pc = "done"
                    /\ Len(g.attempts) = 2
                    /\ g.attempts[1] = f.attempts[1]
                    /\ Is401(g.attempts[1].result)
                    /\ g.attempts[2].token = Get(f.refreshed_tokens, "access_token").v
                    /\ g.refreshes = 1
                    /\ g.attempts[2].result.kind = "ok" =>
                          g.ret = Return(g.attempts[2].result.value)]_vars

\* C7 happens: a request has ended with the result of its second attempt,
\* made with the refreshed access token after the first was answered 401.
RetrySucceeded ==
    \E t \in Threads :
        /\ th[t].op = "get_current_user_for_session"
        /\ th[t].outcome = "ok_second"
        /\ Len(th[t].attempts) = 2
        /\ th[t].attempts[1].token = <<"o">>
        /\ Is401(th[t].attempts[1].result)
        /\ th[t].attempts[2].token = <<"n">>
        /\ th[t].ret = Return(th[t].attempts[2].result.value)
        /\ th[t].refreshes = 1

\* The token set in which the fields of response overwrite those of prior,
\* the other fields of prior are kept, and refresh_token is that of prior
\* unless response holds a non-empty string one.
IsMergeOf(stored, prior, response) ==
    /\ IsDict(stored)
    /\ DOMAIN stored.v = DOMAIN prior.v \cup DOMAIN response.v \cup {"refresh_token"}
    /\ \A field \in DOMAIN response.v \ {"refresh_token"} :
          stored.v[field] = response.v[field]
    /\ \A field \in DOMAIN prior.v \ (DOMAIN response.v \cup {"refresh_token"}) :
          stored.v[field] = prior.v[field]
    /\ stored.v["refresh_token"] =
          IF UsableToken(Get(response, "refresh_token"))
          THEN Get(response, "refresh_token")
          ELSE Get(prior, "refresh_token")

\* C8: merged token persistence.  The step of a successful refresh stores for
\* the session, before the retry is issued, the merge of the token set the
\* call read and the refresh response: every field of the response overwrites
\* the prior one, every other prior field is kept, and refresh_token is the
\* prior one when the response has no non-empty string refresh_token.  The
\* retry then runs with that token set.
MergedTokenPersistence ==
    [][\A t \in Threads :
          LET f == th[t]
              g == th'[t]
          IN  (f.pc = "refresh" /\ Steps(t) /\ g.pc = "attempt2") =>
                  /\ IsMergeOf(get_tokens(tokens', f.session), f.token_data,
                               g.refreshed_tokens)
                  /\ g.token_data = get_tokens(tokens', f.session)
                  /\ Len(g.attempts) = 1]_vars

\* C8 happens: a call is about to retry, the refresh response brought a new
\* field and no usable refresh token, and the store holds the merge with the
\* prior refresh token and the prior scope.
MergedTokensStored ==
    \E t \in Threads :
        /\ th[t].pc = "attempt2"
        /\ tokens[th[t].session] = th[t].token_data
        /\ "expires_in" \in DOMAIN th[t].refreshed_tokens.v
        /\ ~UsableToken(Get(th[t].refreshed_tokens, "refresh_token"))
        /\ Get(th[t].token_data, "refresh_token") = JStr(<<"p">>)
        /\ Get(th[t].token_data, "scope") = JStr(<<"y">>)
        /\ Get(th[t].token_data, "access_token") = JStr(<<"n">>)
        /\ Get(th[t].token_data, "expires_in") = JInt(3600)

\* C9: terminal authorization failure without a refresh token.  When the
\* first call of request_fn ends with status 401 and the token set read holds
\* no non-empty string refresh_token, that step clears the session's tokens
\* and ends the call with "not authorized" (401, auth_error), after one call
\* of request_fn and no refresh.
TerminalWithoutRefreshToken ==
    [][\A t \in Threads :
          LET f == th[t]
              g == th'[t]
          IN  (/\ f.pc = "attempt1" /\ Steps(t)
               /\ Is401(g.attempts[1].result)
               /\ ~UsableToken(Get(f.token_data, "refresh_token"))) =>
                  /\ get_tokens(tokens', f.session) = JNull
                  /\ g.pc = "done"
                  /\ g.ret = ClientError(401, TRUE)
                  /\ g.refreshes = 0
                  /\ Len(g.attempts) = 1]_vars

\* C9 happens: a call whose session held an access token and an empty
\* refresh token has ended "not authorized" after one attempt, and the
\* session has no tokens.
EndedWithoutRefreshToken ==
    \E t \in Threads :
        /\ th[t].outcome = "no_refresh_token"
        /\ th[t].ret = ClientError(401, TRUE)
        /\ Len(th[t].attempts) = 1
        /\ th[t].refreshes = 0
        /\ tokens["s1"] = JNull

\* C10: a second authorization failure is terminal.  When the retry that
\* follows a successful refresh ends with status 401, that step clears the
\* session's tokens, those the refresh stored included, and ends the call
\* with "not authorized" after two calls of request_fn.
SecondFailureTerminal ==
    [][\A t \in Threads :
          LET f == th[t]
              g == th'[t]
          IN  (f.pc = "attempt2" /\ Steps(t) /\ Is401(g.attempts[2].result)) =>
                  /\ get_tokens(tokens', f.session) = JNull
                  /\ g.pc = "done"
                  /\ g.ret = ClientError(401, TRUE)
                  /\ Len(g.attempts) = 2
                  /\ g.refreshes = 1]_vars

\* C10 happens: a call has ended "not authorized" after its retry, and the
\* session has no tokens.
EndedAfterSecondFailure ==
    \E t \in Threads :
        /\ th[t].outcome = "auth_second"
        /\ th[t].ret = ClientError(401, TRUE)
        /\ Len(th[t].attempts) = 2
        /\ Is401(th[t].attempts[2].result)
        /\ tokens["s1"] = JNull

\* C11: no tokens, no network.  When a call of _request_for_session starts
\* while the store holds no token set for the session, or one without a
\* non-empty string access_token, it ends at once with "not authorized" (401,
\* auth_error): request_fn is not called, no refresh is made, nothing is sent.
NoTokensNoNetwork ==
    [][\A t \in Threads :
          LET f == th[t]
              g == th'[t]
              token_data == get_tokens(tokens, g.session)
          IN  (/\ f.pc \in {"idle", "done"} /\ Steps(t)
               /\ g.op = "get_current_user_for_session"
               /\ \/ token_data = JNull
                  \/ token_data = EmptyDict
                  \/ ~UsableToken(Get(token_data, "access_token"))) =>
                  /\ g.pc = "done"
                  /\ g.ret = ClientError(401, TRUE)
                  /\ g.attempts = <<>>
                  /\ g.refreshes = 0
                  /\ g.netcalls = 0]_vars

\* C11 happens: a call has ended "not authorized" without a network call
\* because the token set of its session had no usable access token.
EndedWithoutAccessToken ==
    \E t \in Threads :
        /\ th[t].op = "get_current_user_for_session"
        /\ th[t].outcome = "no_access_token"
        /\ th[t].ret = ClientError(401, TRUE)
        /\ th[t].attempts = <<>>
        /\ th[t].netcalls = 0

\* C12 as stated: a provider answer with status 401 or 403 to the first call
\* of request_fn is tagged auth_error, and with a usable refresh token in the
\* token set either status leads to the refresh.
AuthFailureClassification ==
    [][\A t \in Threads :
          LET f == th[t]
              g == th'[t]
              result == g.attempts[1].result
          IN  (/\ f.pc = "attempt1" /\ Steps(t)
               /\ result.kind = "error"
               /\ result.status_code \in {401, 403}) =>
                  /\ result.auth_error
                  /\ UsableToken(Get(f.token_data, "refresh_token")) => g.pc = "refresh"]_vars

(***************************************************************************)
(* Configuration errors.                                                   *)
(***************************************************************************)
\* C13 as stated: with MUSICBRAINZ_USER_AGENT missing, a call of
\* mbid_from_isrc or get_track_features that went past the cache ends by
\* raising the configuration error: it does not return a value, and it leaves
\* its table, backoff_until included, as it was.
ConfigurationErrorSurfaces ==
    [][\A t \in Threads :
          LET f == th[t]
              g == th'[t]
          IN  (/\ f.op \in {"mbid_from_isrc", "get_track_features"}
               /\ f.pc = "reread" /\ Steps(t)
               /\ ~MbReachesNetwork(MUSICBRAINZ_USER_AGENT)) =>
                  /\ g.pc = "done"
                  /\ g.ret = ConfigError
                  /\ StageTableAfter(f.op) = StageTable(f.op)]_vars

(***************************************************************************)
(* Input rejection.                                                        *)
(***************************************************************************)
\* C14: input rejection precedes all effects.  A call of any of the four
\* stage functions whose key is empty after the trim ends in its first step
\* with None: it has entered no lookup, made no network call, started no
\* adapter attempt and no refresh, and it leaves the three tables and the token
\* store as they were.
InputRejectionFirst ==
    [][\A t \in Threads :
          LET f == th[t]
              g == th'[t]
          IN  (/\ f.pc \in {"idle", "done"} /\ Steps(t)
               /\ g.op \in StageOps
               /\ g.key = <<>>) =>
                  /\ g.pc = "done"
                  /\ g.ret = Return(None)
                  /\ g.outcome = "rejected"
                  /\ g.lookups = 0 /\ g.netcalls = 0
                  /\ g.attempts = <<>> /\ g.refreshes = 0
                  /\ UNCHANGED <<spotify_to_isrc, isrc_to_mbid, track_features, tokens>>]_vars

\* C14 happens: the session-scoped stage rejected a blank id while the table
\* already held a row.
BlankIdRejected ==
    \E t \in Threads :
        /\ th[t].op = "get_isrc_from_spotify_track_for_session"
        /\ th[t].outcome = "rejected"
        /\ th[t].key = <<>>
        /\ spotify_to_isrc # {}

(***************************************************************************)
(* Transport failures.                                                     *)
(***************************************************************************)
\* C15 as stated: transport failures never escape the pipeline.  Whatever the
\* network did, a timeout included, a stage call that has ended has returned
\* a value (the failure branch returns the stored value or None): it has not
\* raised to its caller.
TransportFailuresContained ==
    \A t \in Threads :
        (th[t].op \in StageOps /\ th[t].pc = "done") => th[t].ret.kind = "return"

(***************************************************************************)
(* The request gate.                                                       *)
(***************************************************************************)
\* C16: throttle spacing at the gate.  Under every interleaving of the
\* callers and of the clock, a caller that records the last-request timestamp
\* records a value at least MB_MIN_INTERVAL_SECONDS above the one recorded
\* before it (the initial 0.0 for the first), and nothing else changes the
\* timestamp: the recorded values never decrease and any two of them are at
\* least the interval apart.
ThrottleSpacing ==
    [][/\ \A t \in Threads :
             (th[t].op = "_throttle_musicbrainz_requests" /\ th[t].pc = "update"
              /\ Steps(t)) =>
                 _LAST_MUSICBRAINZ_REQUEST_MONO' >=
                     _LAST_MUSICBRAINZ_REQUEST_MONO + MB_MIN_INTERVAL_SECONDS
       /\ _LAST_MUSICBRAINZ_REQUEST_MONO' # _LAST_MUSICBRAINZ_REQUEST_MONO =>
             \E t \in Threads : th[t].pc = "update" /\ Steps(t)]_vars

\* C16 happens: a second caller waits for the lock while the holder, which
\* came too early after a recorded request, sleeps.
CallerWaitsForSleeper ==
    \E t, u \in Threads :
        /\ th[t].pc = "sleep" /\ _MB_THROTTLE_LOCK = t
        /\ th[u].pc = "acquire"
        /\ _LAST_MUSICBRAINZ_REQUEST_MONO > 0

(***************************************************************************)
(* Best-candidate selection.                                               *)
(***************************************************************************)
\* The id of a picked recording as a string, "" for None.
PickedId(recording) ==
    IF IsDict(recording) THEN PyStr(GetOr(recording, "id", JStr(<<>>))) ELSE <<>>

NoResults(net) ==
    \/ net.kind = "empty_body"
    \/ /\ net.kind = "json" /\ IsDict(net.json)
       /\ \/ ~IsList(Get(net.json, "recordings"))
          \/ Get(net.json, "recordings").v = <<>>

\* Thread t, in get_track_features, takes the step that follows its lookup.
AfterAnswers(t) ==
    /\ th[t].op = "get_track_features" /\ th[t].pc = "reread"
    /\ th[t].answers # <<>>
    /\ Steps(t)

\* C18 as stated: a non-404 primary failure stays authoritative.  When the
\* direct lookup failed with an HTTP status other than 404 and the search
\* answered without results, the lookup has failed: get_track_features takes
\* the failure branch (None without a row, else the backoff) and writes no
\* negative result.
PrimaryFailureAuthoritative ==
    [][\A t \in Threads :
          (/\ AfterAnswers(t)
           /\ th[t].answers[1].kind = "http_error" /\ th[t].answers[1].code # 404
           /\ NoResults(th[t].answers[2])) =>
              /\ th[t].fetch_failed
              /\ th'[t].outcome = "unknown" \/ th'[t].pc = "backoff"
              /\ track_features' = track_features]_vars

\* C19: a 404 from the direct lookup makes the absence authoritative.  When
\* the direct lookup failed with HTTP 404 and the search answered without
\* results, the lookup has not failed and has found nothing:
\* get_track_features writes the row of the negative sentinel, expiring
\* NEGATIVE_TTL_SECONDS from now with no backoff, and returns None.
NotFoundIsNegative ==
    [][\A t \in Threads :
          (/\ AfterAnswers(t)
           /\ th[t].answers[1] = HttpError(404)
           /\ NoResults(th[t].answers[2])) =>
              LET row == FetchOne(track_features', th[t].key)
              IN  /\ ~th[t].fetch_failed
                  /\ th'[t].pc = "done"
                  /\ th'[t].outcome = "stored"
                  /\ th'[t].ret = Return(None)
                  /\ row.present
                  /\ json_loads(row.value.tags_json) = JList(<<>>)
                  /\ json_loads(row.value.metadata_json) =
                        JDict([f \in {"__missing__"} |-> JTrue])
                  /\ row.updated_at = clock
                  /\ row.expires_at = clock + NEGATIVE_TTL_SECONDS
                  /\ row.backoff_until = 0]_vars

\* C19 happens: a call that got 404 and then an empty list of recordings has
\* ended with None, and the sentinel row is in the table.
NotFoundStored ==
    \E t \in Threads :
        /\ th[t].op = "get_track_features" /\ th[t].pc = "done"
        /\ th[t].answers # <<>>
        /\ th[t].answers[1] = HttpError(404)
        /\ th[t].answers[2] = JsonBody(Recordings(JList(<<>>)))
        /\ th[t].outcome = "stored"
        /\ th[t].ret = Return(None)
        /\ _decode_track_features_row(FetchOne(track_features, th[t].key).value) = None

(***************************************************************************)
(* The negative sentinel.                                                  *)
(***************************************************************************)
\* The row holds a negative result: its metadata text is {"__missing__": true}.
IsNegativeRow(row) ==
    /\ row.present
    /\ json_loads(row.value.metadata_json) = JDict([f \in {"__missing__"} |-> JTrue])

\* C20: the sentinel round trip.  A call that finds a usable row holding a
\* negative result returns None, not a feature set with empty tags and
\* metadata, enters no lookup and makes no network call; and a feature set
\* that _extract_track_features produced is written so that the row decodes
\* to that same feature set, never to None.
SentinelRoundTrip ==
    [][\A t \in Threads :
          LET f == th[t]
              g == th'[t]
              row == FetchOne(track_features, g.key)
              written == FetchOne(track_features', f.key)
          IN  /\ (/\ f.pc \in {"idle", "done"} /\ Steps(t)
                  /\ g.op = "get_track_features" /\ g.key # <<>>
                  /\ IsNegativeRow(row)
                  /\ clock <= row.expires_at \/ clock <= row.backoff_until) =>
                     /\ g.pc = "done"
                     /\ g.ret = Return(None)
                     /\ g.lookups = 0 /\ g.netcalls = 0
                     /\ track_features' = track_features
              /\ (/\ f.op = "get_track_features" /\ f.pc = "reread" /\ Steps(t)
                  /\ ~f.fetch_failed /\ IsSome(f.fetched)) =>
                     /\ written.present
                     /\ ~IsNegativeRow(written)
                     /\ _decode_track_features_row(written.value) = f.fetched
                     /\ g.ret = Return(f.fetched)]_vars

\* C20 happens: a call was served None from the sentinel row without a lookup,
\* after another call had stored it.
NegativeRowDecoded ==
    \E t \in Threads :
        /\ th[t].op = "get_track_features"
        /\ th[t].outcome = "hit"
        /\ th[t].ret = Return(None)
        /\ th[t].netcalls = 0
        /\ IsNegativeRow(FetchOne(track_features, th[t].key))
        /\ started = 2

Malformed(op, net) ==
    \/ net.kind = "invalid_json"
    \/ /\ net.kind = "json"
       /\ \/ ~IsDict(net.json)
          \/ /\ IsDict(net.json)
             /\ op = "mbid_from_isrc"
             /\ "recordings" \in DOMAIN net.json.v
             /\ ~IsList(Get(net.json, "recordings"))
          \/ /\ IsDict(net.json)
             /\ op = "get_isrc_from_spotify_track"
             /\ "external_ids" \in DOMAIN net.json.v
             /\ ~IsDict(Get(net.json, "external_ids"))

\* C22: malformed responses are lookup failures.  When the response a stage
\* got is malformed, the step after the lookup takes the failure branch and
\* leaves the stage's table as it is: no upsert, with neither TTL.
MalformedIsFailure ==
    [][\A t \in Threads :
         (/\ Steps(t)
          /\ th[t].pc = "reread"
          /\ th[t].answers # <<>>
          /\ Malformed(th[t].op, th[t].answers[1]))
         => /\ th[t].fetch_failed
            /\ th'[t].outcome \in {"none", "unknown"}
            /\ StageTableAfter(th[t].op) = StageTable(th[t].op)]_vars

\* The positive TTL of a stage's table.
PositiveTtl(op) ==
    IF op = "get_track_features" THEN TRACK_FEATURES_TTL_SECONDS ELSE MAPPING_TTL_SECONDS

\* C23: post-state of a successful lookup.  When the step after a successful
\* lookup runs at time now, the key's row afterwards holds what the call
\* returns (null in the mappings and the sentinel in the features table when
\* nothing was found), updated_at = now, backoff_until = 0, and expires_at =
\* now + the table's positive TTL when a value was found, now +
\* NEGATIVE_TTL_SECONDS when not; the negative TTL is smaller than both
\* positive ones.
SuccessfulLookupPostState ==
    [][\A t \in Threads :
         (Steps(t) /\ th[t].pc = "reread" /\ ~th[t].fetch_failed) =>
            LET op == th[t].op
                now == clock
                row == FetchOne(StageTableAfter(op), th[t].key)
                returned == th'[t].ret
                found == returned.value # None
            IN  /\ th'[t].pc = "done"
                /\ returned.kind = "return"
                /\ row.present
                /\ Served(op, row.value) = returned.value
                /\ ~found => IF op = "get_track_features" THEN IsNegativeRow(row)
                                                          ELSE row.value = None
                /\ row.updated_at = now
                /\ row.backoff_until = 0
                /\ row.expires_at = now + (IF found THEN PositiveTtl(op)
                                                    ELSE NEGATIVE_TTL_SECONDS)
                /\ NEGATIVE_TTL_SECONDS < MAPPING_TTL_SECONDS
                /\ NEGATIVE_TTL_SECONDS < TRACK_FEATURES_TTL_SECONDS]_vars

\* C23 happens: after the clock has advanced, a lookup that found a value has
\* replaced a row, and the new row is dated by the later time.
RowRewrittenLater ==
    \E t \in Threads :
        LET row == FetchOne(StageTable(th[t].op), th[t].key)
        IN  /\ th[t].op \in StageOps
            /\ th[t].outcome = "stored"
            /\ th[t].ret.value # None
            /\ started = MaxCalls
            /\ row.present
            /\ row.updated_at = clock
            /\ clock > 1000

\* C24: the frame of the set-backoff operation.  The UPDATE of a stage
\* changes backoff_until of the row with the call's key to now +
\* ERROR_BACKOFF_SECONDS and nothing else of that row, leaves every other row
\* of the table and the other tables as they are, and adds no row; applied to
\* a key without a row, each of the three operations leaves its table as it is.
SetBackoffFrame ==
    /\ [][\A t \in Threads :
            (Steps(t) /\ th[t].pc = "backoff") =>
               LET op == th[t].op
                   key == th[t].key
                   now == th[t].now
                   before == StageTable(op)
                   after == StageTableAfter(op)
                   row == FetchOne(before, key)
                   row_after == FetchOne(after, key)
               IN  /\ row.present
                   /\ row_after.present
                   /\ row_after.backoff_until = now + ERROR_BACKOFF_SECONDS
                   /\ row_after.value = row.value
                   /\ row_after.updated_at = row.updated_at
                   /\ row_after.expires_at = row.expires_at
                   /\ \A r \in before : r.key # key => r \in after
                   /\ Cardinality(after) = Cardinality(before)
                   /\ Keys(after) = Keys(before)
                   /\ op # "mbid_from_isrc" => UNCHANGED isrc_to_mbid
                   /\ op # "get_track_features" => UNCHANGED track_features
                   /\ op \in {"mbid_from_isrc", "get_track_features"} =>
                         UNCHANGED spotify_to_isrc]_vars
    /\ [](\A key \in {<<"m">>, <<"n">>, <<"M">>, <<"N">>} :
            /\ key \notin Keys(spotify_to_isrc) =>
                  _set_spotify_to_isrc_backoff(spotify_to_isrc, key, clock) = spotify_to_isrc
            /\ key \notin Keys(isrc_to_mbid) =>
                  _set_isrc_to_mbid_backoff(isrc_to_mbid, key, clock) = isrc_to_mbid
            /\ key \notin Keys(track_features) =>
                  _set_track_features_backoff(track_features, key, clock) = track_features)

\* C24 happens: a call has set the backoff on its key's row in a table that
\* holds a row for another key, which has none.
BackoffBesideAnotherRow ==
    \E t \in Threads :
        LET table == StageTable(th[t].op)
        IN  /\ th[t].op \in StageOps
            /\ th[t].outcome = "stale"
            /\ \E r \in table : r.key = th[t].key
                                /\ r.backoff_until = clock + ERROR_BACKOFF_SECONDS
            /\ \E r \in table : r.key # th[t].key /\ r.backoff_until = 0

\* The tables of the store.
Tables == <<spotify_to_isrc, isrc_to_mbid, track_features>>

\* The same after the step.
TablesAfter == <<spotify_to_isrc', isrc_to_mbid', track_features'>>

\* C25: one row per key, last writer wins.  In every state no table holds
\* two rows with one key.  Every upsert, whatever row a concurrent call left
\* for the key, leaves the key's row with the value the writer returns, its
\* time, its TTL and backoff_until = 0; and every step that is no upsert
\* leaves value, updated_at and expires_at of every row as they are.  So
\* after concurrent resolutions with successful lookups the row is the one
\* of the upsert that came last.
LastWriterWins ==
    /\ [](\A i \in 1..3 : \A r1, r2 \in Tables[i] : r1.key = r2.key => r1 = r2)
    /\ [][\A t \in Threads :
            Steps(t) =>
               IF th[t].pc = "reread" /\ ~th[t].fetch_failed
               THEN LET op == th[t].op
                        row == FetchOne(StageTableAfter(op), th[t].key)
                        found == th'[t].ret.value # None
                    IN  /\ th'[t].outcome = "stored"
                        /\ row.present
                        /\ Served(op, row.value) = th'[t].ret.value
                        /\ row.updated_at = clock
                        /\ row.expires_at = clock + (IF found THEN PositiveTtl(op)
                                                              ELSE NEGATIVE_TTL_SECONDS)
                        /\ row.backoff_until = 0
                        /\ \A r \in StageTable(op) :
                              r.key # th[t].key => r \in StageTableAfter(op)
               ELSE \A i \in 1..3 : \A r \in Tables[i] :
                       \E q \in TablesAfter[i] :
                           /\ q.key = r.key
                           /\ q.value = r.value
                           /\ q.updated_at = r.updated_at
                           /\ q.expires_at = r.expires_at]_vars

\* C25 happens: two calls for one key have both ended after a successful
\* lookup, one with a value and one without, and the table holds one row for
\* the key, the first thread's, which therefore wrote last.
SecondWriterOverwrote ==
    /\ \A t \in Threads : th[t].outcome = "stored" /\ th[t].op \in StageOps
    /\ th[1].key = th[2].key
    /\ started = 2
    /\ th[1].ret.value # None
    /\ th[2].ret.value = None
    /\ LET table == StageTable(th[1].op)
       IN  /\ Cardinality({r \in table : r.key = th[1].key}) = 1
           /\ Served(th[1].op, FetchOne(table, th[1].key).value) = th[1].ret.value
           /\ FetchOne(table, th[1].key).backoff_until = 0

\* C26: the failure branch uses the re-read row.  After a failed lookup the
\* call goes by the row as the table holds it at the re-read: with a row it
\* keeps that row's value and the time of the re-read, returns that value
\* and sets backoff_until of the key's row to that time +
\* ERROR_BACKOFF_SECONDS; without one it returns None.  A row that a
\* concurrent call upserted after the first read is the one served.
FailureServesRereadRow ==
    [][\A t \in Threads :
         Steps(t) =>
            LET op == th[t].op
                row == FetchOne(StageTable(op), th[t].key)
                row_after == FetchOne(StageTableAfter(op), th[t].key)
            IN  /\ (th[t].pc = "reread" /\ th[t].fetch_failed) =>
                      IF row.present
                      THEN /\ th'[t].pc = "backoff"
                           /\ th'[t].cached_value = row.value
                           /\ th'[t].now = clock
                      ELSE th'[t].ret = Return(None)
                /\ th[t].pc = "backoff" =>
                      /\ th'[t].ret = Return(Served(op, th[t].cached_value))
                      /\ row_after.present
                      /\ row_after.backoff_until = th[t].now + ERROR_BACKOFF_SECONDS]_vars

\* C26 happens: both calls for one key missed the cache; one stored a value,
\* the other's lookup failed, and the failing one has returned the stored
\* value and set the backoff on its row.
FailingCallerServedNewer ==
    \E t, u \in Threads :
        LET row == FetchOne(StageTable(th[t].op), th[t].key)
        IN  /\ th[t].op \in StageOps
            /\ th[u].op = th[t].op
            /\ th[u].key = th[t].key
            /\ started = 2
            /\ th[u].outcome = "stored"
            /\ th[u].ret.value # None
            /\ th[t].outcome = "stale"
            /\ th[t].lookups = 1
            /\ th[t].ret = th[u].ret
            /\ row.backoff_until = clock + ERROR_BACKOFF_SECONDS

\* C27: the scope of the throttle lock.  The lock is held by a thread only
\* while that thread is inside the with-block of the gate (at the read and
\* check, in the sleep, at the update); a thread that has left the gate, that
\* is building or sending its request or waiting for the answer, or that has
\* ended, does not hold it, whatever path it took.  The lock is taken only
\* from free and released only by its holder.
ThrottleLockScope ==
    /\ [](\A t \in Threads :
            _MB_THROTTLE_LOCK = t <=>
                /\ th[t].op = "_throttle_musicbrainz_requests"
                /\ th[t].pc \in {"check", "sleep", "update"})
    /\ [][_MB_THROTTLE_LOCK' # _MB_THROTTLE_LOCK =>
             \/ _MB_THROTTLE_LOCK = 0
             \/ /\ _MB_THROTTLE_LOCK' = 0
                /\ Steps(_MB_THROTTLE_LOCK)]_vars

\* C27 happens: two threads wait for the answers to their requests at the
\* same time, and the lock is free.
TwoRequestsInFlight ==
    /\ \A t \in Threads : th[t].op = "_musicbrainz_request_json" /\ th[t].pc = "urlopen"
    /\ _MB_THROTTLE_LOCK = 0

\* The places of a call where an external call is in progress: the try-block
\* of a stage, and the attempts and the refresh of the adapter under it.
ExternalCallPlaces == {"lookup", "attempt1", "refresh", "attempt2"}

\* C28: no store connection across a network call.  A call has a connection
\* open only inside its two with-blocks: at the first read and, after the
\* lookup, between the re-read and the UPDATE; while an external call is in
\* progress it has none, and the steps taken there leave the three tables as
\* they are.  The connection of the read is closed when the lookup begins,
\* and the one used after the lookup is opened by the step that follows it.
NoConnectionAcrossLookup ==
    /\ [](\A t \in Threads :
            /\ th[t].conn \in {0, 1}
            /\ th[t].conn = 1 <=> th[t].pc \in {"read", "backoff"}
            /\ th[t].pc \in ExternalCallPlaces => th[t].conn = 0)
    /\ [][\A t \in Threads :
            Steps(t) =>
              /\ th'[t].pc \in ExternalCallPlaces => th'[t].conn = 0
              /\ th[t].pc \in ExternalCallPlaces =>
                    UNCHANGED <<spotify_to_isrc, isrc_to_mbid, track_features>>
              /\ th'[t].pc = "backoff" => th[t].pc = "reread" /\ th[t].conn = 0]_vars

\* C28 happens: one thread waits for the answer to its retry with no
\* connection open, while another is at its first read with one.
RetryInFlightBesideRead ==
    \E t, u \in Threads :
        /\ th[t].pc = "attempt2"
        /\ th[t].conn = 0
        /\ th[u].pc = "read"
        /\ th[u].conn = 1

\* C29: the backoff bounds the retry rate.  The UPDATE after a failed lookup
\* sets backoff_until of the key's row to the time read after the lookup +
\* ERROR_BACKOFF_SECONDS.  A call that finds a row with backoff_until set,
\* at a time <= backoff_until, returns the stored value with no lookup, no
\* network call and no write; a call that finds a row and attempts the lookup
\* does so at a time > backoff_until.  So between a failed attempt on a key
\* that has a row and the next attempt on it lie more than
\* ERROR_BACKOFF_SECONDS.
BackoffBoundsRetries ==
    [][\A t \in Threads :
          LET f == th[t]
              g == th'[t]
              row == FetchOne(StageTable(g.op), g.key)
              row_after == FetchOne(StageTableAfter(f.op), f.key)
          IN  /\ (Steps(t) /\ f.pc = "backoff") =>
                    /\ row_after.backoff_until = f.now + ERROR_BACKOFF_SECONDS
                    /\ f.now <= clock
              /\ (Steps(t) /\ f.pc \in {"idle", "done"} /\ g.key # <<>> /\ row.present) =>
                    /\ (row.backoff_until > 0 /\ clock <= row.backoff_until) =>
                          /\ g.pc = "done"
                          /\ g.ret = Return(Served(g.op, row.value))
                          /\ g.lookups = 0
                          /\ g.netcalls = 0
                          /\ StageTableAfter(g.op) = StageTable(g.op)
                    /\ g.lookups > 0 =>
                          clock > row.backoff_until /\ clock > row.expires_at]_vars

\* C29 happens: after a failed lookup had set the backoff on the key's row,
\* the clock has passed backoff_until and the next call for the key has
\* attempted the lookup again.
RetriedAfterBackoff ==
    \E t \in Threads :
        LET row == FetchOne(StageTable(th[t].op), th[t].key)
        IN  /\ th[t].op \in StageOps
            /\ th[t].pc = "reread"
            /\ th[t].lookups = 1
            /\ th[t].fetch_failed
            /\ row.present
            /\ row.backoff_until > 0
            /\ row.backoff_until < clock

\* A code in canonical form: not empty, no whitespace at either end, no
\* lower-case letter.
IsCanonicalCode(code) ==
    /\ code # <<>>
    /\ ~IsSpace(code[1])
    /\ ~IsSpace(code[Len(code)])
    /\ \A i \in 1..Len(code) : code[i] \notin {"a", "b"}

\* C30: stored industry codes are normalized.  In every reachable state
\* every code stored as a value of spotify_to_isrc that is not null, and
\* every key of isrc_to_mbid, is in canonical form; and so is every code the
\* first stage has returned.
StoredCodesNormalized ==
    /\ \A r \in spotify_to_isrc : r.value # None => IsCanonicalCode(r.value[2])
    /\ \A r \in isrc_to_mbid : IsCanonicalCode(r.key)
    /\ \A t \in Threads :
          (/\ th[t].op \in {"get_isrc_from_spotify_track",
                            "get_isrc_from_spotify_track_for_session"}
           /\ th[t].pc = "done"
           /\ th[t].ret.kind = "return"
           /\ th[t].ret.value # None) => IsCanonicalCode(th[t].ret.value[2])

\* C30 happens: the provider sent the code " a", and the first stage has
\* stored and returned "A".
PaddedCodeStoredCanonical ==
    \E t \in Threads :
        /\ th[t].op \in {"get_isrc_from_spotify_track",
                         "get_isrc_from_spotify_track_for_session"}
        /\ th[t].outcome = "stored"
        /\ th[t].ret = Return(Some(<<"A">>))
        /\ \E r \in spotify_to_isrc : r.key = th[t].key /\ r.value = Some(<<"A">>)

\* An item the tag loops keep: an object whose name is a string with a
\* character that is no blank.
NamedObject(item) ==
    /\ item.k = "dict"
    /\ "name" \in DOMAIN item.v
    /\ item.v.name.k = "str"
    /\ \E i \in 1..Len(item.v.name.v) : item.v.name.v[i] # " "

\* trimmed is name without the blanks at its two ends.
IsTrimOf(trimmed, name) ==
    LET inked == {i \in 1..Len(name) : name[i] # " "}
        first == CHOOSE i \in inked : \A j \in inked : i <= j
        last == CHOOSE i \in inked : \A j \in inked : j <= i
    IN  inked # {} /\ trimmed = SubSeq(name, first, last)

\* The count of an item is no number: a string that is no string of digits,
\* null, a list or an object.
NonNumeric(count) ==
    \/ count.k \in {"null", "list", "dict"}
    \/ count.k = "str" /\ \E i \in 1..Len(count.v) : count.v[i] \notin {"0", "1", "8"}
    \/ count.k = "str" /\ count.v = <<>>

\* entry is what the tag list holds for a kept item: its trimmed name, an
\* integer count (0 without a count or with one that is no number, the count
\* itself when it is an integer) and the source.
IsEntryOf(entry, item, source) ==
    /\ entry.k = "dict"
    /\ DOMAIN entry.v = {"name", "count", "source"}
    /\ entry.v.source = JStr(source)
    /\ entry.v.name.k = "str"
    /\ IsTrimOf(entry.v.name.v, item.v.name.v)
    /\ entry.v.count.k = "int"
    /\ entry.v.count.v \in Int
    /\ "count" \notin DOMAIN item.v => entry.v.count.v = 0
    /\ ("count" \in DOMAIN item.v /\ NonNumeric(item.v.count)) => entry.v.count.v = 0
    /\ ("count" \in DOMAIN item.v /\ item.v.count.k = "int") => entry.v.count = item.v.count

\* The items of a field of the recording, none when the field is no list.
FieldItems(recording, field) ==
    IF field \in DOMAIN recording.v /\ recording.v[field].k = "list"
    THEN recording.v[field].v ELSE <<>>

\* tags is the kept items of 'tags' in order, then those of 'genres' in order.
IsTagListOf(tags, recording) ==
    LET kept_tags == SelectSeq(FieldItems(recording, "tags"), NamedObject)
        kept_genres == SelectSeq(FieldItems(recording, "genres"), NamedObject)
    IN  /\ tags.k = "list"
        /\ Len(tags.v) = Len(kept_tags) + Len(kept_genres)
        /\ \A i \in 1..Len(kept_tags) : IsEntryOf(tags.v[i], kept_tags[i], TagSource)
        /\ \A i \in 1..Len(kept_genres) :
              IsEntryOf(tags.v[Len(kept_tags) + i], kept_genres[i], GenreSource)

\* artists holds every name of names once under case-insensitive comparison,
\* each in its first spelling, in the order of the first occurrences.
IsArtistListOf(artists, names) ==
    LET First(i) == CHOOSE k \in 1..Len(names) :
                        /\ Casefold(names[k]) = Casefold(artists.v[i].v)
                        /\ \A l \in 1..(k - 1) : Casefold(names[l]) # Casefold(names[k])
    IN  /\ artists.k = "list"
        /\ \A i \in 1..Len(artists.v) : artists.v[i].k = "str"
        /\ \A i, j \in 1..Len(artists.v) :
              i # j => Casefold(artists.v[i].v) # Casefold(artists.v[j].v)
        /\ {Casefold(artists.v[i].v) : i \in 1..Len(artists.v)}
              = {Casefold(names[k]) : k \in 1..Len(names)}
        /\ \A i \in 1..Len(artists.v) : artists.v[i].v = names[First(i)]
        /\ \A i, j \in 1..Len(artists.v) : i < j => First(i) < First(j)

\* C31 as stated: feature extraction.  For any recording payload,
\* _extract_track_features produces a tag list that is the kept entries of
\* 'tags' in order (source "tag") followed by the kept entries of 'genres' in
\* order (source "genre"), the kept items being the objects with a non-blank
\* string name, each with its trimmed name and an integer count that is 0 when
\* the count is missing or no number; and an artist list that holds each
\* artist name once under case-insensitive comparison, in first-seen order.
FeatureExtraction ==
    [][\A t \in Threads :
          (Steps(t) /\ th[t].op = "_extract_track_features") =>
              /\ th'[t].outcome = "extracted"
              /\ IsTagListOf(th'[t].ret.value.tags, th[t].arg)
              /\ IsArtistListOf(th'[t].ret.value.metadata.v.artists,
                                ArtistNames(FieldItems(th[t].arg, "artist-credit")))]_vars

\* The same for the recordings none of whose kept items has a count beyond
\* the range of a double.
FiniteCountExtraction ==
    [][\A t \in Threads :
          (/\ Steps(t)
           /\ th[t].op = "_extract_track_features"
           /\ \A field \in {"tags", "genres"} :
                 \A i \in 1..Len(FieldItems(th[t].arg, field)) :
                     LET item == FieldItems(th[t].arg, field)[i]
                     IN  (NamedObject(item) /\ "count" \in DOMAIN item.v)
                            => item.v.count.k # "inf") =>
              /\ th'[t].outcome = "extracted"
              /\ IsTagListOf(th'[t].ret.value.tags, th[t].arg)
              /\ IsArtistListOf(th'[t].ret.value.metadata.v.artists,
                                ArtistNames(FieldItems(th[t].arg, "artist-credit")))]_vars

\* A recording was extracted whose two lists each keep an item and drop one,
\* and whose credits name one artist in two spellings.
ExtractedTagsThenGenres ==
    \E t \in Threads :
        /\ th[t].op = "_extract_track_features"
        /\ th[t].outcome = "extracted"
        /\ Len(th[t].ret.value.tags.v) = 2
        /\ Len(FieldItems(th[t].arg, "tags")) = 2
        /\ th[t].ret.value.tags.v[1].v.source = JStr(TagSource)
        /\ th[t].ret.value.tags.v[2].v.source = JStr(GenreSource)
        /\ Len(ArtistNames(FieldItems(th[t].arg, "artist-credit"))) = 3
        /\ Len(th[t].ret.value.metadata.v.artists.v) = 1

\* The extraction ended with the OverflowError of a count.
ExtractionRaised ==
    \E t \in Threads :
        /\ th[t].op = "_extract_track_features"
        /\ th[t].outcome = "raised"
        /\ th[t].ret = OverflowError

\* C32: a refresh failure leaves the token store untouched.  When the first
\* attempt of _request_for_session failed with 401, a refresh token is
\* present, and the call ends at the token refresh (an HTTP error, a
\* transport error, no answer in time, or a response without a usable access
\* token), the step ends the call with that error, request_fn is not called
\* again, and the token store is as it was before the step: neither cleared
\* nor overwritten.
RefreshFailureKeepsTokens ==
    [][\A t \in Threads :
          (/\ Steps(t)
           /\ th[t].op = "get_current_user_for_session"
           /\ th[t].pc = "refresh"
           /\ th'[t].pc # "attempt2") =>
              /\ Len(th[t].attempts) = 1
              /\ Is401(th[t].attempts[1].result)
              /\ UsableToken(Get(th[t].token_data, "refresh_token"))
              /\ th'[t].pc = "done"
              /\ th'[t].ret \in {ClientError(401, TRUE), ClientError(502, FALSE), TimeoutError}
              /\ th'[t].attempts = th[t].attempts
              /\ th'[t].refreshes = 1
              /\ th'[t].netcalls = 2
              /\ tokens' = tokens]_vars

\* A call ended at a failed refresh and the session still holds the token set
\* it started with.
RefreshFailedTokensKept ==
    \E t \in Threads :
        /\ th[t].op = "get_current_user_for_session"
        /\ th[t].outcome = "refresh_failed"
        /\ th[t].ret = ClientError(502, FALSE)
        /\ Len(th[t].attempts) = 1
        /\ th[t].attempts[1].token = <<"o">>
        /\ tokens["s1"] = FullTokenSet

\* C33: errors that are no authorization failure bypass the retry machinery.
\* When the first attempt of _request_for_session fails with an error whose
\* status is not 401, the step ends the call with that same error, no refresh
\* and no second attempt are made, and the token store is not modified.
OtherErrorsBypassRetry ==
    [][\A t \in Threads :
          (/\ Steps(t)
           /\ th[t].op = "get_current_user_for_session"
           /\ th[t].pc = "attempt1"
           /\ th'[t].attempts[1].result.kind # "ok"
           /\ ~Is401(th'[t].attempts[1].result)) =>
              /\ th'[t].pc = "done"
              /\ th'[t].ret = th'[t].attempts[1].result
              /\ Len(th'[t].attempts) = 1
              /\ th'[t].refreshes = 0
              /\ th'[t].netcalls = 1
              /\ tokens' = tokens]_vars

\* A call ended with the 403 of its first attempt beside a stored token set
\* with a refresh token.
EndedWithFirstError ==
    \E t \in Threads :
        /\ th[t].op = "get_current_user_for_session"
        /\ th[t].pc = "done"
        /\ th[t].ret = ClientError(403, FALSE)
        /\ Len(th[t].attempts) = 1
        /\ th[t].refreshes = 0
        /\ tokens["s1"] = FullTokenSet

\* The token set the session holds was stored by the refresh of the call of
\* thread u: u waits for its retry with that token set, or has made its retry
\* with the access token of that set.
StoredByRefreshOf(u, token_set) ==
    /\ token_set.k = "dict"
    /\ th[u].op = "get_current_user_for_session"
    /\ th[u].refreshes = 1
    /\ \/ th[u].pc = "attempt2" /\ th[u].token_data = token_set
       \/ /\ th[u].pc = "done"
          /\ Len(th[u].attempts) = 2
          /\ Get(token_set, "access_token") = JStr(th[u].attempts[2].token)

\* The provider has answered 401 to a request with this access token, the
\* request of the step being taken included.
RejectedByProvider(access_token) ==
    \E u \in Threads : \E i \in 1..Len(th'[u].attempts) :
        /\ JStr(th'[u].attempts[i].token) = access_token
        /\ Is401(th'[u].attempts[i].result)

ClearedUnderWaitingRetry ==
    \E t \in Threads : \E u \in Threads \ {t} :
        /\ tokens["s1"] = JNull
        /\ th[t].outcome = "auth_second"
        /\ th[u].pc = "attempt2"
        /\ th[u].refreshes = 1
        /\ Get(th[u].token_data, "access_token") # JStr(th[t].attempts[2].token)

\* A step of the session-scoped first stage in which the Session-Token
\* Adapter fails with an authorization error: the call starts on a session
\* without stored tokens (the id is not blank and no usable row serves it), or
\* the step clears the session (a terminal 401).
AdapterFailsUnauthorized(t) ==
    /\ Steps(t)
    /\ th'[t].op = "get_isrc_from_spotify_track_for_session"
    /\ \/ /\ th[t].pc \in {"idle", "done"}
          /\ th'[t].outcome \notin {"rejected", "hit"}
          /\ tokens[th'[t].session] = JNull
       \/ /\ tokens[th'[t].session] # JNull
          /\ tokens'[th'[t].session] = JNull

\* The failure branch of the session-scoped first stage, step by step: an
\* authorization failure of the adapter leaves the call at the re-read with
\* the lookup marked failed and the table as it was; the re-read finds no row
\* and returns None, or finds one and goes to the UPDATE; the UPDATE sets
\* backoff_until of the row of the key to now + ERROR_BACKOFF_SECONDS, leaves
\* its value and expiry alone, and the call returns the value re-read.
AuthFailureTakesFailureBranch ==
    \A t \in Threads :
        /\ AdapterFailsUnauthorized(t) =>
              /\ th'[t].pc = "reread"
              /\ th'[t].fetch_failed
              /\ spotify_to_isrc' = spotify_to_isrc
        /\ (/\ Steps(t)
            /\ th[t].op = "get_isrc_from_spotify_track_for_session"
            /\ th[t].pc = "reread"
            /\ th[t].fetch_failed) =>
              /\ spotify_to_isrc' = spotify_to_isrc
              /\ IF \E r \in spotify_to_isrc : r.key = th[t].key
                 THEN /\ th'[t].pc = "backoff"
                      /\ th'[t].now = clock
                      /\ \E r \in spotify_to_isrc :
                            r.key = th[t].key /\ th'[t].cached_value = r.value
                 ELSE /\ th'[t].pc = "done"
                      /\ th'[t].ret = Return(None)
        /\ (/\ Steps(t)
            /\ th[t].op = "get_isrc_from_spotify_track_for_session"
            /\ th[t].pc = "backoff") =>
              /\ th'[t].pc = "done"
              /\ th'[t].ret = Return(th[t].cached_value)
              /\ \A r \in spotify_to_isrc :
                    IF r.key = th[t].key
                    THEN [r EXCEPT !.backoff_until = th[t].now + ERROR_BACKOFF_SECONDS]
                            \in spotify_to_isrc'
                    ELSE r \in spotify_to_isrc'
              /\ Cardinality(spotify_to_isrc') = Cardinality(spotify_to_isrc)

\* C35 as stated: the session-scoped first stage absorbs authorization
\* failures.  get_isrc_from_spotify_track_for_session never raises and never
\* reports "not authorized": every call that has ended has returned a value;
\* and when the Session-Token Adapter fails with an authorization error (no
\* stored tokens, or a terminal 401) the stage handles it as it handles a
\* transport failure: it returns the stored value and sets backoff on the
\* shared row of the track if there is one, else it returns None.
SessionStageAbsorbsAuthFailure ==
    /\ [](\A t \in Threads :
            (th[t].op = "get_isrc_from_spotify_track_for_session" /\ th[t].pc = "done")
                => th[t].ret.kind = "return")
    /\ [][AuthFailureTakesFailureBranch]_vars

\* The same without "never raises": no call of the stage ends with the
\* adapter's SpotifyClientError, and an authorization failure takes the
\* failure branch.
SessionStageHidesClientError ==
    /\ [](\A t \in Threads :
            (th[t].op = "get_isrc_from_spotify_track_for_session" /\ th[t].pc = "done")
                => th[t].ret.kind # "error")
    /\ [][AuthFailureTakesFailureBranch]_vars

\* A call of the session-scoped stage whose session was cleared has set
\* backoff on the stored row and returned its value.
UnauthorizedCallServedRow ==
    \E t \in Threads :
        /\ th[t].op = "get_isrc_from_spotify_track_for_session"
        /\ th[t].outcome = "stale"
        /\ tokens[th[t].session] = JNull
        /\ \E r \in spotify_to_isrc :
              r.key = th[t].key /\ r.backoff_until = clock + ERROR_BACKOFF_SECONDS

\* A call of the session-scoped stage has ended with a TimeoutError.
SessionStageRaised ==
    \E t \in Threads :
        /\ th[t].op = "get_isrc_from_spotify_track_for_session"
        /\ th[t].pc = "done"
        /\ th[t].ret = TimeoutError

\* C36 as stated: spacing on the wire.  Under every interleaving of the
\* callers, a request that urlopen starts after the gate starts at least
\* MB_MIN_INTERVAL_SECONDS after the start of every request that is still in
\* flight: no two requests of the process start closer than the interval.
WireSpacing ==
    [][\A t \in Threads :
          (/\ Steps(t)
           /\ th'[t].op = "_musicbrainz_request_json"
           /\ th'[t].pc = "urlopen") =>
              \A u \in Threads \ {t} :
                  (th[u].op = "_musicbrainz_request_json" /\ th[u].pc = "urlopen") =>
                      th'[t].now - th[u].now >= MB_MIN_INTERVAL_SECONDS]_vars

\* Two requests are in flight that started at the same reading of the clock.
RequestsStartedTogether ==
    \E t \in Threads : \E u \in Threads \ {t} :
        /\ th[t].op = "_musicbrainz_request_json" /\ th[t].pc = "urlopen"
        /\ th[u].op = "_musicbrainz_request_json" /\ th[u].pc = "urlopen"
        /\ th[t].now = th[u].now

\* The identity a feature set carries: the "mbid" of its metadata.
IdentityOf(features) == features.metadata.v.mbid

HasStringId(net) ==
    /\ net.kind = "json"
    /\ net.json.k = "dict"
    /\ "id" \in DOMAIN net.json.v
    /\ net.json.v.id.k = "str"

\* The objects of the search answer's list of recordings.
CandidatesOf(net) ==
    IF /\ net.kind = "json"
       /\ net.json.k = "dict"
       /\ "recordings" \in DOMAIN net.json.v
       /\ net.json.v.recordings.k = "list"
    THEN {c \in {net.json.v.recordings.v[i] : i \in 1..Len(net.json.v.recordings.v)} :
            c.k = "dict"}
    ELSE {}

ThrottleProgress ==
    /\ [](\A t \in Threads :
            _MB_THROTTLE_LOCK = t =>
                (/\ th[t].op = "_throttle_musicbrainz_requests"
                 /\ th[t].pc \in {"check", "sleep", "update"}))
    /\ \A t \in Threads :
          (th[t].op = "_throttle_musicbrainz_requests"
              /\ th[t].pc \in {"acquire", "check", "sleep", "update"})
            ~> (th[t].pc = "done" /\ _MB_THROTTLE_LOCK # t)

\* Every call the bound allows has passed the gate, the last of them after a
\* sleep, and the lock is free.
AllCallersLeft ==
    /\ started = MaxGateCalls
    /\ \A t \in Threads :
          /\ th[t].op = "_throttle_musicbrainz_requests"
          /\ th[t].pc = "done"
          /\ th[t].outcome = "passed"
    /\ _MB_THROTTLE_LOCK = 0
    /\ _LAST_MUSICBRAINZ_REQUEST_MONO >= MaxGateCalls * MB_MIN_INTERVAL_SECONDS

====
